---- MODULE Spec2Model ----
(***************************************************************************)
(* A model of the compact Cuckoo hash table of include/cuckoo.cuh.         *)
(*                                                                         *)
(* Machine words (keys, rows) are modelled as bit vectors: the set of the  *)
(* positions of their 1 bits (bit 0 is the least significant).  A shift or *)
(* a conversion keeps the width of its C++ type, so a bit that the C++     *)
(* expression loses is lost here as well.                                  *)
(***************************************************************************)
EXTENDS Integers, Sequences, FiniteSets, TLC

VARIABLES
    row_width,    \* bits of row_type (template parameter of Cuckoo)
    key_width,    \* constructor argument key_width (held by permute)
    addr_width,   \* constructor argument addr_width
    seed,         \* constructor argument rng (seed of the permutation)
    rows,         \* the slab: rows[0 .. n_rows-1]
    kernel,       \* the device function in flight ("idle": device idle)
    keys,         \* the key range [start, end) of the bulk call
    results,      \* the Result buffer of the bulk call
    found,        \* the bool buffer of find
    written,      \* indices of the result buffer stored by the kernel in flight
    tiles,        \* per tile: the position of its lanes in the dispatcher loop
    indices,      \* the permutation of the key and result views (find_or_put)
    gh,           \* history of the calls (what was passed in, what came back)
    rt,           \* scratch of the hashing round trip
    FAILFLAG,     \* the member failed of the device global FAILFLAG
    p_rows,       \* the slab of the primary level of an Iceberg table
    NDEBUG,       \* the macro NDEBUG of the build (assert expands to nothing)
    constructed   \* how far the constructor of the table got

vars == <<row_width, key_width, addr_width, seed, rows, kernel, keys,
          results, found, written, tiles, indices, gh, rt, FAILFLAG, p_rows,
          NDEBUG, constructed>>

----------------------------------------------------------------------------
(* Template parameters and constants of class Cuckoo *)

bucket_size == 2
n_hash_functions == 3
block_size == 128
max_chain_length == 20 * n_hash_functions

(* Bounds of the model *)
NKeys == 6
NCore == 3
MaxCalls == 2
AddrWidth == 1

(* The geometry of the test cases: Cuckoo<uint32_t, ...> table(21, ...) *)
TestRowWidth == 32
TestKeyWidth == 21
DefaultSeed == 0
TestAddrWidth == 5
OtherSeed == 1
WideKeyWidth == 35

----------------------------------------------------------------------------
(* Bit vectors *)

\* the bit vector of a natural number
RECURSIVE BitsFrom(_, _)
BitsFrom(n, p) ==
    IF n = 0 THEN {}
    ELSE (IF n % 2 = 1 THEN {p} ELSE {}) \cup BitsFrom(n \div 2, p + 1)

Bits(n) == BitsFrom(n, 0)

RECURSIVE ToNat(_)
ToNat(x) == IF x = {} THEN 0
            ELSE LET p == CHOOSE q \in x : TRUE IN 2^p + ToNat(x \ {p})

\* mask<T>(width): the low width bits set
mask(width) == 0 .. (width - 1)

\* x << n and x >> n, before any conversion
Shl(x, n) == {p + n : p \in x}
Shr(x, n) == {p - n : p \in {q \in x : q >= n}}

\* conversion of x to an unsigned type of the given width
Trunc(x, width) == {p \in x : p < width}

Xor(x, y) == (x \ y) \cup (y \ x)

\* std::bit_width
RECURSIVE bit_width(_)
bit_width(n) == IF n = 0 THEN 0 ELSE 1 + bit_width(n \div 2)

\* width of the type in which arithmetic on row_type is done: a row_type
\* narrower than int is promoted to int (32 bits)
promoted_width(width) == IF width < 32 THEN 32 ELSE width

state_width == bit_width(n_hash_functions)

----------------------------------------------------------------------------
(* Permute: a one-round Feistel network on key_width bits.  The low half   *)
(* is xored with a hash of the high half (a linear map over GF(2) plus a   *)
(* constant, both depending on the hash id and the seed).  g is the table: *)
(* its row_width, key_width, addr_width and seed.                          *)

lo_width(g) == g.key_width \div 2

Tap(g, hash_id, p, r) == hash_id # 0 /\ (r + p + 1 + g.seed) % 3 = hash_id % 3

RoundConst(g, hash_id, p) == (g.seed * (hash_id + p + 1)) % 2 = 1

RoundF(g, hash_id, hi) ==
    {p \in 0 .. (lo_width(g) - 1) :
        (Cardinality({q \in hi : Tap(g, hash_id, p, q - lo_width(g))})
            + (IF RoundConst(g, hash_id, p) THEN 1 ELSE 0)) % 2 = 1}

permute(g, hash_id, k) ==
    LET hi == {q \in k : q >= lo_width(g)}
        lo == {q \in k : q < lo_width(g)}
    IN hi \cup Xor(lo, RoundF(g, hash_id, hi))

permute_inv(g, hash_id, pk) ==
    LET hi == {q \in pk : q >= lo_width(g)}
        lo == {q \in pk : q < lo_width(g)}
    IN hi \cup Xor(lo, RoundF(g, hash_id, hi))

----------------------------------------------------------------------------
(* Hash key to an address and a row entry, and back, in table g *)

rem_width_of(g) == (g.key_width - g.addr_width) % 256

\* addr_row with the address mask one bit short
addr_row_short_mask(g, hash_id, k) ==
    LET pk == permute(g, hash_id, k)
        addr == ToNat(pk \cap mask(g.addr_width - 1))
        rem == Shr(pk, g.addr_width)
    IN <<addr, Trunc(Shl(Bits(hash_id + 1), g.row_width - state_width) \cup rem,
                     g.row_width)>>

\* addr_row with the address mask one bit wide
addr_row_wide_mask(g, hash_id, k) ==
    LET pk == permute(g, hash_id, k)
        addr == ToNat(pk \cap mask(g.addr_width + 1))
        rem == Shr(pk, g.addr_width)
    IN <<addr, Trunc(Shl(Bits(hash_id + 1), g.row_width - state_width) \cup rem,
                     g.row_width)>>

addr_row_of(g, hash_id, k) ==
    LET pk == permute(g, hash_id, k)
        addr == ToNat(pk \cap mask(g.addr_width))
        rem == Shr(pk, g.addr_width)
    IN <<addr,
         Trunc(Shl(Bits(hash_id + 1), g.row_width - state_width) \cup rem,
               g.row_width)>>

\* the hash id hash_key reads from a row: (row >> (row_width - state_width)) - 1
row_hash_id(g, row) == ToNat(Shr(row, g.row_width - state_width)) - 1

\* hash_key leaving the address out of the permuted key
hash_key_no_addr(g, addr, row) ==
    LET hash_id == row_hash_id(g, row)
        rem == row \cap mask(rem_width_of(g))
    IN <<hash_id,
         permute_inv(g, hash_id,
                     Trunc(Shl(rem, g.addr_width), promoted_width(g.row_width)))>>

hash_key_of(g, addr, row) ==
    LET hash_id == row_hash_id(g, row)
        rem == row \cap mask(rem_width_of(g))
        pk == Trunc(Shl(rem, g.addr_width), promoted_width(g.row_width))
                  \cup Bits(addr)
    IN <<hash_id, permute_inv(g, hash_id, pk)>>

----------------------------------------------------------------------------
(* The keys the callers use: a sample of the universe [0, 2^key_width) *)

KeySample == <<0, 2, 1024, 4, 2049, 1, 3075>>
Keys == {Bits(KeySample[j]) : j \in 1 .. NKeys}
CoreKeys == {Bits(KeySample[j]) : j \in 1 .. NCore}

\* k < l as unsigned integers
KeyLess(k, l) ==
    k # l /\ (CHOOSE p \in Xor(k, l) : \A q \in Xor(k, l) : q <= p) \in l

IsSorted(ks) == \A j \in 1 .. (Len(ks) - 1) : ~KeyLess(ks[j + 1], ks[j])

\* the longest key range of a bulk call: one full tile and one partial tile
MaxLen == bucket_size + 1

Batches == UNION {[1 .. m -> Keys] : m \in 1 .. MaxLen}
MaxLater == 2
LaterBatches == UNION {[1 .. m -> Keys] : m \in 1 .. MaxLater}

----------------------------------------------------------------------------
(* The table object: its members are the variables row_width, key_width,   *)
(* addr_width, seed (of permute) and rows.                                 *)

Geo == [row_width |-> row_width, key_width |-> key_width,
        addr_width |-> addr_width, seed |-> seed]

rem_width == (key_width - addr_width) % 256
n_rows == (2^addr_width) * (row_width \div 8) * bucket_size

\* the table the bulk calls are run on
TestTable == [row_width |-> TestRowWidth, key_width |-> TestKeyWidth,
              addr_width |-> AddrWidth, seed |-> DefaultSeed]

\* addr_row and hash_key of the test table on the sample keys, computed once
AddrRowMemo ==
    [hk \in (0 .. (n_hash_functions - 1)) \X Keys |->
        addr_row_of(TestTable, hk[1], hk[2])]

HashKeyMemo ==
    [ar \in {AddrRowMemo[hk] : hk \in DOMAIN AddrRowMemo} |->
        hash_key_of(TestTable, ar[1], ar[2])]

addr_row(hash_id, k) ==
    IF Geo = TestTable /\ <<hash_id, k>> \in DOMAIN AddrRowMemo
    THEN AddrRowMemo[<<hash_id, k>>]
    ELSE addr_row_of(Geo, hash_id, k)

hash_key(addr, row) ==
    IF Geo = TestTable /\ <<addr, row>> \in DOMAIN HashKeyMemo
    THEN HashKeyMemo[<<addr, row>>]
    ELSE hash_key_of(Geo, addr, row)

\* the two assertions of hash_key
hash_key_asserts(row) ==
    /\ row # {}
    /\ row_hash_id(Geo, row) \in 0 .. (n_hash_functions - 1)

----------------------------------------------------------------------------
(* Count the number of occurrences of key k in a slab *)

RECURSIVE count_loop(_, _, _)
count_loop(slab, k, hid) ==
    IF hid >= n_hash_functions THEN 0
    ELSE LET ar == addr_row(hid, k)
         IN Cardinality({bi \in 0 .. (bucket_size - 1) :
                            slab[ar[1] * bucket_size + bi] = ar[2]})
            + count_loop(slab, k, hid + 1)

count_in(slab, k) == count_loop(slab, k, 0)

count(k) == count_in(rows, k)

(* Cooperatively find k: one tile, lane rank reads slot addr * bucket_size + rank *)

\* coop_find looking in the bucket of the first hash function only
coop_find_first_hash(slab, k, hid) ==
    LET ar == addr_row(hid, k)
    IN \E rank \in 0 .. (bucket_size - 1) : slab[ar[1] * bucket_size + rank] = ar[2]

RECURSIVE coop_find_loop(_, _, _)
coop_find_loop(slab, k, hid) ==
    IF hid >= n_hash_functions THEN FALSE
    ELSE LET ar == addr_row(hid, k)
             curr == [rank \in 0 .. (bucket_size - 1) |->
                         slab[ar[1] * bucket_size + rank]]
         IN IF \E rank \in DOMAIN curr : curr[rank] = ar[2] THEN TRUE
            ELSE IF \E rank \in DOMAIN curr : curr[rank] = {} THEN FALSE
            ELSE coop_find_loop(slab, k, hid + 1)

coop_find_in(slab, k) == coop_find_loop(slab, k, 0)

coop_find(k) == coop_find_in(rows, k)

coop_find_as_result(k) == IF coop_find(k) THEN "FOUND" ELSE "PUT"

----------------------------------------------------------------------------
(* The Iceberg table: a primary level p_rows with p_n_hash_functions hash  *)
(* functions and a secondary level, the slab rows, that is run as the      *)
(* Cuckoo table above.  Both levels have the geometry and the hash family  *)
(* of the table object.                                                    *)

p_n_hash_functions == 2

\* the slots of the primary bucket of k under hash function hid
p_bucket(slab, k, hid) ==
    LET ar == addr_row(hid, k)
    IN [rank \in 0 .. (bucket_size - 1) |-> slab[ar[1] * bucket_size + rank]]

\* the occurrences of k in the primary level
RECURSIVE p_count_loop(_, _, _)
p_count_loop(slab, k, hid) ==
    IF hid >= p_n_hash_functions THEN 0
    ELSE Cardinality({rank \in 0 .. (bucket_size - 1) :
                         p_bucket(slab, k, hid)[rank] = addr_row(hid, k)[2]})
         + p_count_loop(slab, k, hid + 1)

p_count(k) == p_count_loop(p_rows, k, 0)

\* count(k) of the Iceberg table: the occurrences across both levels
ice_count(k) == p_count(k) + count(k)

\* the Cuckoo-style coop_find on the primary: "found", "empty" (it stopped
\* at a bucket with an empty slot) or "full" (every bucket was full)
RECURSIVE p_find_loop(_, _, _)
p_find_loop(slab, k, hid) ==
    IF hid >= p_n_hash_functions THEN "full"
    ELSE LET curr == p_bucket(slab, k, hid)
         IN IF \E rank \in DOMAIN curr : curr[rank] = addr_row(hid, k)[2]
            THEN "found"
            ELSE IF \E rank \in DOMAIN curr : curr[rank] = {} THEN "empty"
            ELSE p_find_loop(slab, k, hid + 1)

p_find(k) == p_find_loop(p_rows, k, 0)

\* find returning false when the primary probe saw an empty slot
ice_find_short(k) ==
    CASE p_find(k) = "found" -> TRUE
      [] p_find(k) = "empty" -> FALSE
      [] OTHER -> coop_find(k)

\* cooperative find of the Iceberg table: the primary, then the secondary
\* whatever the primary probe saw
ice_find(k) == p_find(k) = "found" \/ coop_find(k)

ice_find_as_result(k) == IF ice_find(k) THEN "FOUND" ELSE "PUT"

----------------------------------------------------------------------------
(* The dispatchers coop, coop_sorted and put_if_not_found_sorted.          *)
(* A tile is bucket_size consecutive threads; its lanes run in lockstep.   *)

n_blocks(len) == (len + block_size - 1) \div block_size
stride(len) == n_blocks(len) * block_size
max_index(len) == ((len + bucket_size - 1) \div bucket_size) * bucket_size

Ranks == 0 .. (bucket_size - 1)

\* The host launches n_blocks(len) blocks, so stride(len) >= max_index(len)
\* and every thread runs the loop body at most once, with i = index.
TileIds(len) == 0 .. ((max_index(len) \div bucket_size) - 1)

\* index = blockIdx.x * blockDim.x + threadIdx.x of lane rank of tile t
index_of(t, rank) == t * bucket_size + rank

\* the views the kernel gets: start[i] and the place of results[i]
view_key(ks, ind, i) == ks[ind[i + 1] + 1]
view_pos(ind, i) == ind[i + 1] + 1

\* first taking every key in range for the first of its kind
first_in_range(ks, ind, index, i) == i < Len(ks)

first(ks, ind, index, i) ==
    i < Len(ks) /\ (index = 0 \/ view_key(ks, ind, i) # view_key(ks, ind, i - 1))

to_act(kern, ks, ind, res, index, i) ==
    CASE kern \in {"put", "put_avoid_dups", "find", "put_flag", "ice_put"} ->
             i < Len(ks)
      [] kern \in {"fos_find", "ice_fos_find"} ->
             i < Len(ks) /\ first(ks, ind, index, i)
      [] kern \in {"fos_put", "ice_fos_put"} ->
                             /\ i < Len(ks)
                             /\ first(ks, ind, index, i)
                             /\ res[view_pos(ind, i)] # "FOUND"

\* the kernels whose tiles run the put of the Iceberg table
IcePutKernels == {"ice_put", "ice_fos_put"}

leader_of(queue) == CHOOSE rank \in queue : \A other \in queue : rank <= other

\* a tile at the head of the while loop with the lanes of queue pending
Serve(kern, ks, ind, t, queue) ==
    IF queue = {}
    THEN [pending |-> {},
          pc |-> IF kern \in {"fos_put", "ice_fos_put"} THEN "exit" ELSE "done",
          k |-> {}, hashid |-> 0, chain_length |-> 0, load |-> 0, retries |-> 0]
    ELSE [pending |-> queue,
          pc |-> IF kern \in {"find", "fos_find", "ice_fos_find"} THEN "find"
                 ELSE IF kern \in IcePutKernels THEN "p_read"
                 ELSE "read",
          k |-> view_key(ks, ind, index_of(t, leader_of(queue))),
          hashid |-> 0, chain_length |-> 0, load |-> 0, retries |-> 0]

NewTile(kern, ks, ind, res, t) ==
    Serve(kern, ks, ind, t,
          {rank \in Ranks :
              to_act(kern, ks, ind, res, index_of(t, rank), index_of(t, rank))})

Identity(len) == [j \in 1 .. len |-> j - 1]

\* a sort by key that puts equal keys in the reverse of their input order
ReversingSortIndices(ks) ==
    CHOOSE ind \in [1 .. Len(ks) -> 0 .. (Len(ks) - 1)] :
        /\ \A a, b \in 1 .. Len(ks) : a # b => ind[a] # ind[b]
        /\ \A a, b \in 1 .. Len(ks) : a < b =>
               \/ KeyLess(ks[ind[a] + 1], ks[ind[b] + 1])
               \/ ks[ind[a] + 1] = ks[ind[b] + 1] /\ ind[a] > ind[b]

\* thrust::stable_sort_by_key of the key copies with the index sequence
StableSortIndices(ks) ==
    CHOOSE ind \in [1 .. Len(ks) -> 0 .. (Len(ks) - 1)] :
        /\ \A a, b \in 1 .. Len(ks) : a # b => ind[a] # ind[b]
        /\ \A a, b \in 1 .. Len(ks) : a < b =>
               \/ KeyLess(ks[ind[a] + 1], ks[ind[b] + 1])
               \/ ks[ind[a] + 1] = ks[ind[b] + 1] /\ ind[a] < ind[b]

\* the kernels whose tiles run coop_put
PutKernels ==
    {"put", "put_avoid_dups", "fos_put", "put_find", "put_flag"}
        \cup IcePutKernels

\* avoid_dups set for every put kernel
avoid_dups_always == kernel \in {"put", "put_avoid_dups", "fos_put"}

\* the put of the find-or-put of the Iceberg table avoids duplicates
ice_avoid_dups == kernel = "ice_fos_put"

\* avoid_dups set for no put kernel
avoid_dups_never == FALSE

avoid_dups == kernel = "put_avoid_dups" \/ ice_avoid_dups

Quiescent == kernel = "idle"

----------------------------------------------------------------------------
(* Construction: Cuckoo(key_width, addr_width, rng) allocates and clears *)

NoTrip == [stage |-> "none", hid |-> 0, k |-> {}, ar |-> <<0, {}>>, hk |-> <<0, {}>>]

\* prefill has not returned
NoReturn == [value |-> TRUE, full |-> FALSE, len |-> 0, before |-> FALSE]

\* no lane of a sorted dispatcher has been served
NoActed == [find |-> {}, put |-> {}, twice |-> FALSE]

NoHistory ==
    [calls |-> 0, op |-> "none", pre |-> <<>>, passed |-> {}, dup |-> FALSE,
     putres |-> [k \in Keys |-> "NONE"], full |-> FALSE, asserts |-> TRUE,
     earlier |-> {}, sought |-> {}, carried |-> {}, nput |-> 0,
     flagged |-> {}, ret |-> NoReturn, acted |-> NoActed,
     prev |-> [op |-> "none", keys |-> <<>>, results |-> <<>>]]

Init ==
    /\ row_width = TestRowWidth
    /\ key_width = TestKeyWidth
    /\ addr_width = AddrWidth
    /\ seed = DefaultSeed
    /\ rows = [s \in 0 .. (n_rows - 1) |-> {}]
    /\ kernel = "idle"
    /\ keys = <<>>
    /\ results = <<>>
    /\ found = <<>>
    /\ written = {}
    /\ tiles = <<>>
    /\ indices = <<>>
    /\ gh = NoHistory
    /\ rt = NoTrip
    /\ FAILFLAG = FALSE
    /\ p_rows = <<>>
    /\ NDEBUG = FALSE
    /\ constructed = "yes"

geometry == <<row_width, key_width, addr_width, seed, NDEBUG, constructed>>

----------------------------------------------------------------------------
(* Host side: the bulk calls.  Kernels run in launch order on one stream,  *)
(* so a kernel starts when the device is idle.                             *)

HasDuplicates(ks) == \E a, b \in 1 .. Len(ks) : a # b /\ ks[a] = ks[b]
Range(ks) == {ks[j] : j \in 1 .. Len(ks)}

Called(op, ks, puts) ==
    [gh EXCEPT !.calls = @ + 1,
               !.op = op,
               !.pre = rows,
               !.passed = IF puts THEN @ \cup Range(ks) ELSE @,
               !.dup = IF puts
                       THEN @ \/ HasDuplicates(ks) \/ Range(ks) \cap gh.passed # {}
                       ELSE @,
               !.earlier = gh.passed,
               !.carried = {},
               !.acted = NoActed,
               !.prev = IF gh.op = "fos"
                        THEN [op |-> gh.op, keys |-> keys, results |-> results]
                        ELSE NoHistory.prev]

Launch(kern, ks, ind) ==
    /\ kernel' = kern
    /\ keys' = ks
    /\ indices' = ind
    /\ results' = [j \in 1 .. Len(ks) |-> "UNSET"]
    /\ found' = [j \in 1 .. Len(ks) |-> FALSE]
    /\ written' = {}
    /\ tiles' = [t \in TileIds(Len(ks)) |->
                    NewTile(kern, ks, ind, [j \in 1 .. Len(ks) |-> "UNSET"], t)]
    /\ UNCHANGED <<geometry, p_rows, rows, rt>>

\* the host may issue a call: the device is idle (every call here is
\* synchronous) and the caller has calls left
HostReady == kernel = "idle" /\ gh.calls < MaxCalls /\ gh.op # "prefill"

\* put(start, end, results)
Put(ks) ==
    /\ HostReady
    /\ Launch("put", ks, Identity(Len(ks)))
    /\ gh' = Called("put", ks, TRUE)
    /\ UNCHANGED FAILFLAG

\* put_avoid_dups(start, end, results)
PutAvoidDups(ks) ==
    /\ HostReady
    /\ Launch("put_avoid_dups", ks, Identity(Len(ks)))
    /\ gh' = Called("put_avoid_dups", ks, TRUE)
    /\ UNCHANGED FAILFLAG

\* find(start, end, results)
Find(ks) ==
    /\ HostReady
    /\ Launch("find", ks, Identity(Len(ks)))
    /\ gh' = Called("find", ks, FALSE)
    /\ UNCHANGED FAILFLAG

\* put(start, end, results, false) with find(start, end, found) right after
\* it: the find kernel starts when the put kernel before it is over
FindAfterPut(ks) ==
    /\ kernel = "idle"
    /\ gh.op = "put"
    /\ Launch("find", ks, Identity(Len(ks)))
    /\ gh' = Called("find", ks, FALSE)
    /\ UNCHANGED FAILFLAG

\* find_or_put_sorted(keys, end, results): the first of its two kernels
FindOrPutSorted(ks) ==
    /\ HostReady
    /\ IsSorted(ks)
    /\ Launch("fos_find", ks, Identity(Len(ks)))
    /\ gh' = Called("fos", ks, TRUE)
    /\ UNCHANGED FAILFLAG

\* find_or_put(keys, end, tmp, results): sort, then find_or_put_sorted on views
FindOrPut(ks) ==
    /\ HostReady
    /\ Launch("fos_find", ks, StableSortIndices(ks))
    /\ gh' = Called("fop", ks, TRUE)
    /\ UNCHANGED FAILFLAG

\* the tile of a kernel that is about to call coop_find(k)
FindTile(k) ==
    [pending |-> {0}, pc |-> "cfind", k |-> k,
     hashid |-> 0, chain_length |-> 0, load |-> 0, retries |-> 0]

\* A kernel in which the tiles in front call coop_put for the keys of ks, as
\* _put does, and one more tile calls coop_find(k) at the same time; the
\* result of the find goes to found[0].
PutWithFind(ks, k) ==
    /\ HostReady
    /\ kernel' = "put_find"
    /\ keys' = ks
    /\ indices' = Identity(Len(ks))
    /\ results' = [j \in 1 .. Len(ks) |-> "UNSET"]
    /\ found' = <<FALSE>>
    /\ written' = {}
    /\ tiles' = [t \in 0 .. (max_index(Len(ks)) \div bucket_size) |->
                    IF t \in TileIds(Len(ks))
                    THEN NewTile("put", ks, Identity(Len(ks)),
                                 [j \in 1 .. Len(ks) |-> "UNSET"], t)
                    ELSE FindTile(k)]
    /\ gh' = [Called("put_find", ks, TRUE) EXCEPT !.sought = k]
    /\ UNCHANGED <<geometry, p_rows, FAILFLAG, rows, rt>>

\* SuccessIgnorer::reset(): cudaMemcpyToSymbol(FAILFLAG, &to, sizeof(to))
Reset ==
    /\ kernel = "idle"
    /\ gh.op # "prefill"
    /\ FAILFLAG' = FALSE
    /\ gh' = [gh EXCEPT !.op = "reset", !.flagged = {}]
    /\ UNCHANGED <<geometry, p_rows, rows, kernel, keys, results, found,
                   written, tiles, indices, rt>>

\* SuccessIgnorer::failed(): cudaMemcpyFromSymbol(&ret, FAILFLAG, sizeof(ret))
failed == FAILFLAG

\* table.put(start, end, results) with results a SuccessIgnorer
PutFlagged(ks) ==
    /\ HostReady
    /\ Launch("put_flag", ks, Identity(Len(ks)))
    /\ gh' = Called("put_flag", ks, TRUE)
    /\ UNCHANGED FAILFLAG

\* prefill(table, start, end) up to the return of table.put: nothing but
\* return true for an empty range, else the constructor of SuccessIgnorer
\* resets the flag and put launches its kernel
Prefill(ks) ==
    /\ HostReady
    /\ IF Len(ks) = 0
       THEN /\ gh' = [Called("prefilled", ks, TRUE) EXCEPT
                         !.ret = [value |-> TRUE, full |-> FALSE, len |-> 0,
                                  before |-> FAILFLAG]]
            /\ UNCHANGED <<geometry, p_rows, FAILFLAG, rows, kernel, keys,
                           results, found, written, tiles, indices, rt>>
       ELSE /\ FAILFLAG' = FALSE
            /\ Launch("put_flag", ks, Identity(Len(ks)))
            /\ gh' = [Called("prefill", ks, TRUE) EXCEPT
                         !.flagged = {},
                         !.ret = [NoReturn EXCEPT !.before = FAILFLAG]]

\* prefill after the device synchronization of put:
\* success = !ignore_results.failed(); ignore_results.reset(); return success
PrefillReturn ==
    /\ kernel = "idle"
    /\ gh.op = "prefill"
    /\ FAILFLAG' = FALSE
    /\ gh' = [gh EXCEPT !.op = "prefilled",
                        !.flagged = {},
                        !.ret = [value |-> ~failed,
                                 full |-> "FULL" \in gh.flagged,
                                 len |-> Len(keys),
                                 before |-> gh.ret.before]]
    /\ UNCHANGED <<geometry, p_rows, rows, kernel, keys, results, found,
                   written, tiles, indices, rt>>

\* clear() filling one slot per bucket only
ClearBuckets ==
    /\ HostReady
    /\ rows' = [s \in 0 .. (n_rows - 1) |->
                   IF s < 2 ^ addr_width THEN {} ELSE rows[s]]
    /\ gh' = [Called("clear", <<>>, FALSE) EXCEPT
                 !.passed = {}, !.dup = FALSE, !.full = FALSE, !.earlier = {},
                 !.nput = 0,
                 !.putres = [k \in Keys |-> "NONE"]]
    /\ UNCHANGED <<geometry, p_rows, FAILFLAG, kernel, keys, results, found, written, tiles,
                   indices, rt>>

\* clear()
Clear ==
    /\ HostReady
    /\ rows' = [s \in 0 .. (n_rows - 1) |-> {}]
    /\ gh' = [Called("clear", <<>>, FALSE) EXCEPT
                 !.passed = {}, !.dup = FALSE, !.full = FALSE, !.earlier = {},
                 !.nput = 0,
                 !.putres = [k \in Keys |-> "NONE"]]
    /\ UNCHANGED <<geometry, p_rows, FAILFLAG, kernel, keys, results, found, written, tiles,
                   indices, rt>>

\* The kernel in flight has run to completion.  find_or_put_sorted then
\* launches its second kernel on the same views; the other calls are over.
KernelDone ==
    /\ kernel # "idle"
    /\ \A t \in DOMAIN tiles : tiles[t].pc = "done"
    /\ IF kernel \in {"fos_find", "ice_fos_find"}
       THEN /\ kernel' = (IF kernel = "fos_find" THEN "fos_put"
                                                ELSE "ice_fos_put")
            /\ tiles' = [t \in DOMAIN tiles |->
                            NewTile(IF kernel = "fos_find" THEN "fos_put"
                                                          ELSE "ice_fos_put",
                                    keys, indices, results, t)]
       ELSE /\ kernel' = "idle"
            /\ UNCHANGED tiles
    /\ UNCHANGED <<geometry, p_rows, FAILFLAG, rows, keys, results, found, written, indices, gh, rt>>

----------------------------------------------------------------------------
(* Device side: the steps of one tile *)

\* the index i of the leader of tile t (i = index for a host launch)
leader_index(t) == index_of(t, leader_of(tiles[t].pending))

\* F has returned to the leader with index i in the dispatcher of pass
Acted(pass, i) ==
    [gh.acted EXCEPT ![pass] = @ \cup {i},
                     !.twice = @ \/ i \in gh.acted[pass]]

\* Return with every pending lane taking the result for its own
ReturnAll(t, res) ==
    LET i == leader_index(t)
        k0 == view_key(keys, indices, i)
        served == {view_pos(indices, index_of(t, rank)) : rank \in tiles[t].pending}
    IN /\ results' = [j \in DOMAIN results |->
                         IF j \in served THEN res ELSE results[j]]
       /\ written' = written \cup {j - 1 : j \in served}
       /\ tiles' = [tiles EXCEPT ![t] = Serve(kernel, keys, indices, t, {})]
       /\ gh' = [gh EXCEPT !.putres[k0] = res,
                           !.full = @ \/ res = "FULL",
                           !.nput = IF res = "PUT" THEN @ + 1 ELSE @]
       /\ UNCHANGED FAILFLAG

\* rank == leader: results[i] = res; to_act = false; then the next ballot
Return(t, res) ==
    LET i == leader_index(t)
        k0 == view_key(keys, indices, i)
    IN /\ results' = [results EXCEPT ![view_pos(indices, i)] = res]
       /\ written' = written \cup {view_pos(indices, i) - 1}
       /\ tiles' = [tiles EXCEPT ![t] =
              Serve(kernel, keys, indices, t,
                    tiles[t].pending \ {leader_of(tiles[t].pending)})]
       /\ gh' = [gh EXCEPT !.putres[k0] = res,
                           !.full = @ \/ res = "FULL",
                           !.nput = IF res = "PUT" THEN @ + 1 ELSE @,
                           !.acted = IF kernel = "fos_put"
                                     THEN Acted("put", i) ELSE @]
       /\ UNCHANGED FAILFLAG

\* FlagTest storing the last result: failed = (result == Result::FULL)
FlagTestLast(t, res) ==
    LET i == leader_index(t)
        k0 == view_key(keys, indices, i)
    IN /\ FAILFLAG' = (res = "FULL")
       /\ tiles' = [tiles EXCEPT ![t] =
              Serve(kernel, keys, indices, t,
                    tiles[t].pending \ {leader_of(tiles[t].pending)})]
       /\ gh' = [gh EXCEPT !.putres[k0] = res,
                           !.full = @ \/ res = "FULL",
                           !.nput = IF res = "PUT" THEN @ + 1 ELSE @,
                           !.flagged = @ \cup {res}]
       /\ UNCHANGED <<results, written>>

\* rank == leader: results[i] = res with results a SuccessIgnorer, that is
\* FAILFLAG = res.  The lane reads failed and tests
\* !failed && result == Result::FULL; the store is the step after it.
FlagTest(t, res) ==
    LET i == leader_index(t)
        k0 == view_key(keys, indices, i)
    IN /\ tiles' = [tiles EXCEPT ![t] =
              IF ~FAILFLAG /\ res = "FULL"
              THEN [@ EXCEPT !.pc = "flag"]
              ELSE Serve(kernel, keys, indices, t,
                         tiles[t].pending \ {leader_of(tiles[t].pending)})]
       /\ gh' = [gh EXCEPT !.putres[k0] = res,
                           !.full = @ \/ res = "FULL",
                           !.nput = IF res = "PUT" THEN @ + 1 ELSE @,
                           !.flagged = @ \cup {res}]
       /\ UNCHANGED <<results, written, FAILFLAG>>

\* FAILFLAG = res, the store: failed = true; then to_act = false
FlagStore(t) ==
    /\ kernel = "put_flag"
    /\ tiles[t].pc = "flag"
    /\ FAILFLAG' = TRUE
    /\ tiles' = [tiles EXCEPT ![t] =
           Serve(kernel, keys, indices, t,
                 tiles[t].pending \ {leader_of(tiles[t].pending)})]
    /\ UNCHANGED <<geometry, p_rows, rows, kernel, keys, results, found,
                   written, indices, gh, rt>>

\* results[i] = res of the dispatcher, for the two kinds of ResIt
Assign(t, res) ==
    IF kernel = "put_flag" THEN FlagTest(t, res) ELSE Return(t, res)

\* F = coop_find (find) or coop_find_as_result (find_or_put_sorted)
FindStep(t) ==
    /\ kernel \in {"find", "fos_find", "ice_fos_find"}
    /\ tiles[t].pc = "find"
    /\ LET i == leader_index(t)
       IN /\ IF kernel = "find"
             THEN /\ found' = [found EXCEPT ![view_pos(indices, i)] =
                                  coop_find(tiles[t].k)]
                  /\ UNCHANGED results
             ELSE /\ results' = [results EXCEPT ![view_pos(indices, i)] =
                                    IF kernel = "fos_find"
                                    THEN coop_find_as_result(tiles[t].k)
                                    ELSE ice_find_as_result(tiles[t].k)]
                  /\ UNCHANGED found
          /\ written' = written \cup {view_pos(indices, i) - 1}
          /\ tiles' = [tiles EXCEPT ![t] =
                 Serve(kernel, keys, indices, t,
                       tiles[t].pending \ {leader_of(tiles[t].pending)})]
          /\ gh' = [gh EXCEPT !.acted = IF kernel = "fos_find"
                                        THEN Acted("find", i) ELSE @]
    /\ UNCHANGED <<geometry, p_rows, FAILFLAG, rows, kernel, keys, indices, rt>>

\* CoopFindStep looking for an empty slot before it looks for the row
CoopFindEmptyFirst(t) ==
    /\ kernel = "put_find"
    /\ tiles[t].pc = "cfind"
    /\ LET ar == addr_row(tiles[t].hashid, tiles[t].k)
           curr == [rank \in Ranks |-> rows[ar[1] * bucket_size + rank]]
           over(res) == /\ found' = <<res>>
                        /\ tiles' = [tiles EXCEPT ![t].pc = "done",
                                                  ![t].pending = {}]
       IN IF \E rank \in Ranks : curr[rank] = {} THEN over(FALSE)
          ELSE IF \E rank \in Ranks : curr[rank] = ar[2] THEN over(TRUE)
          ELSE IF tiles[t].hashid + 1 >= n_hash_functions THEN over(FALSE)
          ELSE /\ tiles' = [tiles EXCEPT ![t].hashid = @ + 1]
               /\ UNCHANGED found
    /\ UNCHANGED <<geometry, p_rows, FAILFLAG, rows, kernel, keys, results, written, indices,
                   gh, rt>>

\* coop_find called next to coop_put: one turn of its loop over the hash
\* functions, every lane loads its slot of the bucket
CoopFindStep(t) ==
    /\ kernel = "put_find"
    /\ tiles[t].pc = "cfind"
    /\ LET ar == addr_row(tiles[t].hashid, tiles[t].k)
           curr == [rank \in Ranks |-> rows[ar[1] * bucket_size + rank]]
           over(res) == /\ found' = <<res>>
                        /\ tiles' = [tiles EXCEPT ![t].pc = "done",
                                                  ![t].pending = {}]
       IN IF \E rank \in Ranks : curr[rank] = ar[2] THEN over(TRUE)
          ELSE IF \E rank \in Ranks : curr[rank] = {} THEN over(FALSE)
          ELSE IF tiles[t].hashid + 1 >= n_hash_functions THEN over(FALSE)
          ELSE /\ tiles' = [tiles EXCEPT ![t].hashid = @ + 1]
               /\ UNCHANGED found
    /\ UNCHANGED <<geometry, p_rows, FAILFLAG, rows, kernel, keys, results, written, indices,
                   gh, rt>>

\* PutRead giving up after one turn through the hash functions
PutReadEarlyFull(t) ==
    /\ kernel \in PutKernels
    /\ tiles[t].pc = "read"
    /\ LET ar == addr_row(tiles[t].hashid, tiles[t].k)
           tmp == [rank \in Ranks |-> rows[ar[1] * bucket_size + rank]]
           load == Cardinality({rank \in Ranks : tmp[rank] # {}})
       IN IF avoid_dups /\ \E rank \in Ranks : tmp[rank] = ar[2]
          THEN Assign(t, "FOUND")
          ELSE IF load < bucket_size
          THEN /\ tiles' = [tiles EXCEPT ![t].pc = "cas", ![t].load = load]
               /\ UNCHANGED <<results, written, gh, FAILFLAG>>
          ELSE IF tiles[t].chain_length >= n_hash_functions
          THEN Assign(t, "FULL")
          ELSE /\ tiles' = [tiles EXCEPT ![t].pc = "exch", ![t].load = load]
               /\ UNCHANGED <<results, written, gh, FAILFLAG>>
    /\ UNCHANGED <<geometry, p_rows, rows, kernel, keys, found, indices, rt>>

\* coop_put, head of the loop: every lane loads its slot of the bucket
PutRead(t) ==
    /\ kernel \in PutKernels
    /\ tiles[t].pc = "read"
    /\ LET ar == addr_row(tiles[t].hashid, tiles[t].k)
           tmp == [rank \in Ranks |-> rows[ar[1] * bucket_size + rank]]
           load == Cardinality({rank \in Ranks : tmp[rank] # {}})
       IN IF avoid_dups /\ \E rank \in Ranks : tmp[rank] = ar[2]
          THEN Assign(t, "FOUND")
          ELSE IF load < bucket_size
          THEN /\ tiles' = [tiles EXCEPT ![t].pc = "cas", ![t].load = load]
               /\ UNCHANGED <<results, written, gh, FAILFLAG>>
          ELSE IF tiles[t].chain_length >= max_chain_length
          THEN Assign(t, "FULL")
          ELSE /\ tiles' = [tiles EXCEPT ![t].pc = "exch", ![t].load = load]
               /\ UNCHANGED <<results, written, gh, FAILFLAG>>
    /\ UNCHANGED <<geometry, p_rows, rows, kernel, keys, found, indices, rt>>

\* PutCas taking the atomicCAS for done whatever it returned
PutCasBlind(t) ==
    /\ kernel \in PutKernels
    /\ tiles[t].pc = "cas"
    /\ LET ar == addr_row(tiles[t].hashid, tiles[t].k)
           slot == ar[1] * bucket_size + tiles[t].load
       IN /\ rows' = IF rows[slot] = {} THEN [rows EXCEPT ![slot] = ar[2]] ELSE rows
          /\ Assign(t, "PUT")
    /\ UNCHANGED <<geometry, p_rows, kernel, keys, found, indices, rt>>

\* PutCas going on to the next hash function when the atomicCAS fails
PutCasNextHash(t) ==
    /\ kernel \in PutKernels
    /\ tiles[t].pc = "cas"
    /\ LET ar == addr_row(tiles[t].hashid, tiles[t].k)
           slot == ar[1] * bucket_size + tiles[t].load
           tmp == rows[slot]
       IN IF tmp = {}
          THEN /\ rows' = [rows EXCEPT ![slot] = ar[2]]
               /\ Assign(t, "PUT")
          ELSE IF avoid_dups /\ tmp = ar[2]
          THEN /\ UNCHANGED rows
               /\ Assign(t, "FOUND")
          ELSE /\ tiles' = [tiles EXCEPT
                      ![t].pc = "read",
                      ![t].hashid = (@ + 1) % n_hash_functions,
                      ![t].retries = @ + 1]
               /\ UNCHANGED <<rows, results, written, gh, FAILFLAG>>
    /\ UNCHANGED <<geometry, p_rows, kernel, keys, found, indices, rt>>

\* coop_put, insert in empty row: lane load does atomicCAS(my_addr, 0, row)
PutCas(t) ==
    /\ kernel \in PutKernels
    /\ tiles[t].pc = "cas"
    /\ LET ar == addr_row(tiles[t].hashid, tiles[t].k)
           slot == ar[1] * bucket_size + tiles[t].load
           tmp == rows[slot]
       IN IF tmp = {}
          THEN /\ rows' = [rows EXCEPT ![slot] = ar[2]]
               /\ Assign(t, "PUT")
          ELSE IF avoid_dups /\ tmp = ar[2]
          THEN /\ UNCHANGED rows
               /\ Assign(t, "FOUND")
          ELSE /\ tiles' = [tiles EXCEPT ![t].pc = "read",
                                         ![t].retries = @ + 1]
               /\ UNCHANGED <<rows, results, written, gh, FAILFLAG>>
    /\ UNCHANGED <<geometry, p_rows, kernel, keys, found, indices, rt>>

\* cuckoor with the same lane at every chain length
cuckoor_fixed(t, chain_length) == bucket_size - 1

\* the lane that exchanges: blockIdx.x * blockDim.x + meta_group_rank + chain
cuckoor(t, chain_length) ==
    (((t * bucket_size) \div block_size) * block_size
        + ((t * bucket_size) % block_size) \div bucket_size
        + chain_length) % bucket_size

\* PutExch taking the evicted row out and leaving the slot empty
PutExchTake(t) ==
    /\ kernel \in PutKernels
    /\ tiles[t].pc = "exch"
    /\ LET ar == addr_row(tiles[t].hashid, tiles[t].k)
           slot == ar[1] * bucket_size + cuckoor(t, tiles[t].chain_length)
           hk == hash_key(ar[1], rows[slot])
       IN /\ rows' = [rows EXCEPT ![slot] = {}]
          /\ tiles' = [tiles EXCEPT ![t].pc = "read",
                                    ![t].chain_length = @ + 1]
          /\ UNCHANGED <<results, written, gh, FAILFLAG>>
    /\ UNCHANGED <<geometry, p_rows, kernel, keys, found, indices, rt>>

\* coop_put, we have to Cuckoo: lane cuckoor does atomicExch(my_addr, row)
PutExch(t) ==
    /\ kernel \in PutKernels
    /\ tiles[t].pc = "exch"
    /\ LET ar == addr_row(tiles[t].hashid, tiles[t].k)
           slot == ar[1] * bucket_size + cuckoor(t, tiles[t].chain_length)
           tmp == rows[slot]
           hk == hash_key(ar[1], tmp)
       IN /\ rows' = [rows EXCEPT ![slot] = ar[2]]
          /\ IF avoid_dups /\ tmp = ar[2]
             THEN Assign(t, "FOUND")
             ELSE /\ tiles' = [tiles EXCEPT
                         ![t].pc = "read",
                         ![t].k = hk[2],
                         ![t].hashid = (hk[1] + 1) % n_hash_functions,
                         ![t].chain_length = @ + 1,
                         ![t].retries = 0]
                  /\ gh' = [gh EXCEPT
                         !.asserts = @ /\ hash_key_asserts(tmp),
                         !.carried = IF kernel = "put_find"
                                     THEN @ \cup {hk[2]} ELSE @]
                  /\ UNCHANGED <<results, written, FAILFLAG>>
    /\ UNCHANGED <<geometry, p_rows, kernel, keys, found, indices, rt>>

\* the put of the Iceberg table goes on after primary hash function hid:
\* to the next primary hash function, or to coop_put on the secondary
p_next(t) ==
    IF tiles[t].hashid + 1 < p_n_hash_functions
    THEN [tiles EXCEPT ![t].pc = "p_read", ![t].hashid = @ + 1]
    ELSE [tiles EXCEPT ![t].pc = "read", ![t].hashid = 0]

\* the leftmost free slot of a bucket that is not full
leftmost_free(tmp) ==
    CHOOSE rank \in Ranks :
        tmp[rank] = {} /\ \A other \in Ranks : tmp[other] = {} => rank <= other

\* IcePutRead going to the secondary from a bucket that has a free slot
IcePutReadSkip(t) ==
    /\ kernel \in IcePutKernels
    /\ tiles[t].pc = "p_read"
    /\ LET ar == addr_row(tiles[t].hashid, tiles[t].k)
           tmp == p_bucket(p_rows, tiles[t].k, tiles[t].hashid)
       IN IF avoid_dups /\ \E rank \in Ranks : tmp[rank] = ar[2]
          THEN Assign(t, "FOUND")
          ELSE /\ tiles' = [tiles EXCEPT ![t].pc = "read", ![t].hashid = 0]
               /\ UNCHANGED <<results, written, gh, FAILFLAG>>
    /\ UNCHANGED <<geometry, p_rows, rows, kernel, keys, found, indices, rt>>

\* put of the Iceberg table, primary hash function hashid: the tile probes
\* the bucket
IcePutRead(t) ==
    /\ kernel \in IcePutKernels
    /\ tiles[t].pc = "p_read"
    /\ LET ar == addr_row(tiles[t].hashid, tiles[t].k)
           tmp == p_bucket(p_rows, tiles[t].k, tiles[t].hashid)
       IN IF avoid_dups /\ \E rank \in Ranks : tmp[rank] = ar[2]
          THEN Assign(t, "FOUND")
          ELSE IF \E rank \in Ranks : tmp[rank] = {}
          THEN /\ tiles' = [tiles EXCEPT ![t].pc = "p_cas",
                                         ![t].load = leftmost_free(tmp)]
               /\ UNCHANGED <<results, written, gh, FAILFLAG>>
          ELSE /\ tiles' = p_next(t)
               /\ UNCHANGED <<results, written, gh, FAILFLAG>>
    /\ UNCHANGED <<geometry, p_rows, rows, kernel, keys, found, indices, rt>>

\* IcePutCas storing the row whatever the slot holds
IcePutStore(t) ==
    /\ kernel \in IcePutKernels
    /\ tiles[t].pc = "p_cas"
    /\ LET ar == addr_row(tiles[t].hashid, tiles[t].k)
           slot == ar[1] * bucket_size + tiles[t].load
       IN /\ p_rows' = [p_rows EXCEPT ![slot] = ar[2]]
          /\ Assign(t, "PUT")
    /\ UNCHANGED <<geometry, rows, kernel, keys, found, indices, rt>>

\* IcePutCas giving the bucket up when the CAS-insert fails
IcePutCasNext(t) ==
    /\ kernel \in IcePutKernels
    /\ tiles[t].pc = "p_cas"
    /\ LET ar == addr_row(tiles[t].hashid, tiles[t].k)
           slot == ar[1] * bucket_size + tiles[t].load
           tmp == p_rows[slot]
       IN IF tmp = {}
          THEN /\ p_rows' = [p_rows EXCEPT ![slot] = ar[2]]
               /\ Assign(t, "PUT")
          ELSE IF avoid_dups /\ tmp = ar[2]
          THEN /\ UNCHANGED p_rows
               /\ Assign(t, "FOUND")
          ELSE /\ tiles' = p_next(t)
               /\ UNCHANGED <<p_rows, results, written, gh, FAILFLAG>>
    /\ UNCHANGED <<geometry, rows, kernel, keys, found, indices, rt>>

\* put of the Iceberg table, the CAS-insert at the leftmost free slot that
\* the probe saw: PUT on success; on failure FOUND if the slot holds the
\* row and duplicates are avoided, else another insert took the slot and
\* the tile probes the bucket again, as coop_put of the Cuckoo table does
IcePutCas(t) ==
    /\ kernel \in IcePutKernels
    /\ tiles[t].pc = "p_cas"
    /\ LET ar == addr_row(tiles[t].hashid, tiles[t].k)
           slot == ar[1] * bucket_size + tiles[t].load
           tmp == p_rows[slot]
       IN IF tmp = {}
          THEN /\ p_rows' = [p_rows EXCEPT ![slot] = ar[2]]
               /\ Assign(t, "PUT")
          ELSE IF avoid_dups /\ tmp = ar[2]
          THEN /\ UNCHANGED p_rows
               /\ Assign(t, "FOUND")
          ELSE /\ tiles' = [tiles EXCEPT ![t].pc = "p_read"]
               /\ UNCHANGED <<p_rows, results, written, gh, FAILFLAG>>
    /\ UNCHANGED <<geometry, rows, kernel, keys, found, indices, rt>>

\* TileExit giving a later occurrence the result of the one before it
TileExitCopy(t) ==
    /\ kernel = "fos_put"
    /\ tiles[t].pc = "exit"
    /\ LET later == {i \in {index_of(t, rank) : rank \in Ranks} :
                        i < Len(keys) /\ ~first(keys, indices, i, i)}
       IN /\ results' = [j \in DOMAIN results |->
                 IF \E i \in later : view_pos(indices, i) = j
                 THEN LET i == CHOOSE i \in later : view_pos(indices, i) = j
                      IN results[view_pos(indices, i - 1)]
                 ELSE results[j]]
          /\ written' = written \cup {view_pos(indices, i) - 1 : i \in later}
    /\ tiles' = [tiles EXCEPT ![t].pc = "done"]
    /\ UNCHANGED <<geometry, p_rows, FAILFLAG, rows, kernel, keys, found, indices, gh, rt>>

\* put_if_not_found_sorted, after the while loop:
\* if (in_range && !first) results[i] = Result::FOUND
TileExit(t) ==
    /\ kernel \in {"fos_put", "ice_fos_put"}
    /\ tiles[t].pc = "exit"
    /\ LET later == {i \in {index_of(t, rank) : rank \in Ranks} :
                        i < Len(keys) /\ ~first(keys, indices, i, i)}
       IN /\ results' = [j \in DOMAIN results |->
                 IF \E i \in later : view_pos(indices, i) = j
                 THEN "FOUND" ELSE results[j]]
          /\ written' = written \cup {view_pos(indices, i) - 1 : i \in later}
    /\ tiles' = [tiles EXCEPT ![t].pc = "done"]
    /\ UNCHANGED <<geometry, p_rows, FAILFLAG, rows, kernel, keys, found, indices, gh, rt>>

TileStep(t) ==
    \/ FindStep(t)
    \/ CoopFindStep(t)
    \/ PutRead(t)
    \/ PutCas(t)
    \/ PutExch(t)
    \/ TileExit(t)
    \/ FlagStore(t)
    \/ IcePutRead(t)
    \/ IcePutCas(t)

Device == (\E t \in DOMAIN tiles : TileStep(t)) \/ KernelDone

----------------------------------------------------------------------------
(* The table under all its bulk calls *)

\* the inputs of a call: any batch for the first call on the empty table,
\* a batch of one tile for a later call
CallBatches == IF gh.calls = 0 THEN Batches ELSE LaterBatches

Fresh(ks) == ~HasDuplicates(ks) /\ Range(ks) \cap gh.passed = {}

\* the caller runs find_or_put_sorted again on the input of the last call
Rerun == gh.op = "fos" /\ FindOrPutSorted(keys)

\* a batch over the keys that every kind of call is tried with
Core(ks) == Range(ks) \subseteq CoreKeys

Next ==
    \/ HostReady /\ \E ks \in CallBatches : Core(ks) /\ Put(ks)
    \/ HostReady /\ \E ks \in CallBatches : Core(ks) /\ PutAvoidDups(ks)
    \/ HostReady /\ \E ks \in CallBatches : Core(ks) /\ Find(ks)
    \/ HostReady /\ \E ks \in CallBatches : Core(ks) /\ FindOrPutSorted(ks)
    \/ HostReady /\ \E ks \in CallBatches : Core(ks) /\ FindOrPut(ks)
    \/ Rerun
    \/ Clear
    \/ Device

Spec == Init /\ [][Next]_vars

(* The empty table under one bulk call of any kind, with every tile of    *)
(* the running kernel scheduled again and again                           *)

FirstCall(ks) == gh.calls = 0

NextFair ==
    \/ HostReady /\ \E ks \in CallBatches : FirstCall(ks) /\ Put(ks)
    \/ HostReady /\ \E ks \in CallBatches : FirstCall(ks) /\ PutAvoidDups(ks)
    \/ HostReady /\ \E ks \in CallBatches : FirstCall(ks) /\ Find(ks)
    \/ HostReady /\ \E ks \in CallBatches : FirstCall(ks) /\ FindOrPut(ks)
    \/ Device

MaxTiles == (max_index(MaxLen) \div bucket_size) + 1

Scheduled(t) == t \in DOMAIN tiles /\ TileStep(t)

Fairness ==
    /\ \A t \in 0 .. (MaxTiles - 1) : WF_vars(Scheduled(t))
    /\ WF_vars(KernelDone)

SpecFair == Init /\ [][NextFair]_vars /\ Fairness

(* The table under puts of pairwise-distinct keys and finds *)

NextPut ==
    \/ HostReady /\ \E ks \in CallBatches : Fresh(ks) /\ Put(ks)
    \/ HostReady /\ \E ks \in CallBatches : Find(ks)
    \/ Device

SpecPut == Init /\ [][NextPut]_vars

(* The table under sorted find-or-put *)

NextFop ==
    \/ HostReady /\ \E ks \in CallBatches : FindOrPutSorted(ks)
    \/ HostReady /\ \E ks \in CallBatches : FindOrPut(ks)
    \/ Rerun
    \/ Device

SpecFop == Init /\ [][NextFop]_vars

(* The table under a put that fills a bucket and then a put_avoid_dups of  *)
(* three tiles, the first and the last of them with the same key (two      *)
(* tiles with the same victim lane at one bucket at the same time), or     *)
(* under one put of three keys of one bucket (a chain of max_chain_length) *)

\* the keys of bucket 0 and a key of bucket 1
DupKeys == {Bits(KeySample[1]), Bits(KeySample[2]), Bits(KeySample[4])}
OtherKey == Bits(KeySample[6])

\* two full tiles and one partial tile
DupLen == 2 * bucket_size + 1

DupBatches ==
    IF gh.calls = 0
    THEN {<<Bits(KeySample[3]), k>> : k \in DupKeys}
             \cup {<<Bits(KeySample[1]), Bits(KeySample[2]), Bits(KeySample[4])>>}
    ELSE IF Len(keys) = bucket_size
    THEN {[j \in 1 .. DupLen |-> IF j \in {1, DupLen} THEN k ELSE OtherKey] :
             k \in DupKeys}
    ELSE {}

NextDup ==
    \/ HostReady /\ gh.calls = 0 /\ \E ks \in DupBatches : Put(ks)
    \/ HostReady /\ gh.calls > 0 /\ \E ks \in DupBatches : PutAvoidDups(ks)
    \/ Device

SpecDup == Init /\ [][NextDup]_vars

(* The table under puts of pairwise-distinct keys, each with a find after *)
(* it                                                                     *)

NextSeen ==
    \/ HostReady /\ \E ks \in CallBatches : Fresh(ks) /\ Put(ks)
    \/ \E ks \in LaterBatches : FindAfterPut(ks)
    \/ Device

SpecSeen == Init /\ [][NextSeen]_vars

(* The table with coop_find called next to coop_put, after puts of        *)
(* pairwise-distinct keys                                                 *)

NextMix ==
    \/ HostReady /\ \E ks \in CallBatches : Core(ks) /\ Fresh(ks) /\ Put(ks)
    \/ HostReady /\ \E ks \in CallBatches : \E k \in CoreKeys :
           Core(ks) /\ Fresh(ks) /\ PutWithFind(ks, k)
    \/ Device

SpecMix == Init /\ [][NextMix]_vars

(* The table under puts that report through the failure flag *)

\* The keys of these calls live in one bucket each, 0 in bucket 0 and 1 in
\* bucket 1.  A later call that fills a second tile has the keys of the two
\* buckets in different tiles, so that one tile at most runs into a full
\* bucket while the other tile stores its result.
FlagKeys == {Bits(KeySample[1]), Bits(KeySample[6])}
FlagBatches ==
    {ks \in Batches :
        /\ Range(ks) \subseteq FlagKeys
        /\ gh.calls > 0 /\ Len(ks) > bucket_size =>
               \A j \in 1 .. Len(ks) :
                   ks[j] = Bits(KeySample[IF j <= bucket_size THEN 1 ELSE 6])}

NextFlag ==
    \/ HostReady /\ \E ks \in FlagBatches : PutFlagged(ks)
    \/ HostReady /\ \E ks \in FlagBatches \cup {<<>>} : Prefill(ks)
    \/ PrefillReturn
    \/ Reset
    \/ Device

SpecFlag == Init /\ [][NextFlag]_vars

(* The Iceberg table under put, find-or-put and clear *)

InitIce ==
    /\ row_width = TestRowWidth
    /\ key_width = TestKeyWidth
    /\ addr_width = AddrWidth
    /\ seed = DefaultSeed
    /\ rows = [s \in 0 .. (n_rows - 1) |-> {}]
    /\ p_rows = [s \in 0 .. (n_rows - 1) |-> {}]
    /\ kernel = "idle"
    /\ keys = <<>>
    /\ results = <<>>
    /\ found = <<>>
    /\ written = {}
    /\ tiles = <<>>
    /\ indices = <<>>
    /\ gh = NoHistory
    /\ rt = NoTrip
    /\ FAILFLAG = FALSE
    /\ NDEBUG = FALSE
    /\ constructed = "yes"

\* put(keys, results) of the Iceberg table
IcePut(ks) ==
    /\ HostReady
    /\ Launch("ice_put", ks, Identity(Len(ks)))
    /\ gh' = Called("ice_put", ks, TRUE)
    /\ UNCHANGED FAILFLAG

\* find_or_put(keys, results) of the Iceberg table: the two kernels of the
\* sorted protocol on the caller's buffers, without scratch
IceFindOrPut(ks) ==
    /\ HostReady
    /\ Launch("ice_fos_find", ks, Identity(Len(ks)))
    /\ gh' = Called("ice_fop", ks, TRUE)
    /\ UNCHANGED FAILFLAG

\* clear() of the Iceberg table: zeroes all slabs
IceClear ==
    /\ HostReady
    /\ rows' = [s \in 0 .. (n_rows - 1) |-> {}]
    /\ p_rows' = [s \in 0 .. (n_rows - 1) |-> {}]
    /\ gh' = [Called("ice_clear", <<>>, FALSE) EXCEPT
                 !.passed = {}, !.dup = FALSE, !.full = FALSE, !.earlier = {},
                 !.nput = 0,
                 !.putres = [k \in Keys |-> "NONE"]]
    /\ UNCHANGED <<geometry, FAILFLAG, kernel, keys, results, found, written,
                   tiles, indices, rt>>

NextIce ==
    \/ HostReady /\ \E ks \in CallBatches : IcePut(ks)
    \/ HostReady /\ \E ks \in CallBatches : IceFindOrPut(ks)
    \/ IceClear
    \/ Device

SpecIce == InitIce /\ [][NextIce]_vars

(* The Iceberg table under find-or-put alone *)

NextIceFop ==
    \/ HostReady /\ \E ks \in CallBatches : IceFindOrPut(ks)
    \/ Device

SpecIceFop == InitIce /\ [][NextIceFop]_vars

(* The empty Iceberg table under one put or find-or-put that the caller   *)
(* does make, with every tile of the running kernel scheduled again and   *)
(* again                                                                  *)

IceCall ==
    HostReady /\ \E ks \in CallBatches :
        FirstCall(ks) /\ (IcePut(ks) \/ IceFindOrPut(ks))

NextIceFair ==
    \/ IceCall
    \/ Device

SpecIceFair ==
    InitIce /\ [][NextIceFair]_vars /\ Fairness /\ WF_vars(IceCall)

(* The compact encoding alone, over the geometries the constructor admits *)

RowWidths == {32, 64}

\* Cuckoo(key_width, addr_width, rng): assert(sizeof(row_type) * 8 >=
\* state_width + rem_width)
Geometries ==
    {g \in [row_width : RowWidths,
            key_width : {TestKeyWidth, WideKeyWidth},
            addr_width : {AddrWidth, TestAddrWidth},
            seed : {DefaultSeed, OtherSeed}] :
        g.row_width >= state_width + rem_width_of(g)}

\* keys of table g: the bits at the edges of the address, of the two halves
\* of the permutation and of the key
EdgeKeys(g) ==
    SUBSET {0, g.addr_width - 1, g.addr_width, lo_width(g),
            g.key_width - 3, g.key_width - 1}

InitHash ==
    /\ \E g \in Geometries :
           /\ row_width = g.row_width
           /\ key_width = g.key_width
           /\ addr_width = g.addr_width
           /\ seed = g.seed
    /\ rows = [s \in 0 .. (n_rows - 1) |-> {}]
    /\ kernel = "idle"
    /\ keys = <<>>
    /\ results = <<>>
    /\ found = <<>>
    /\ written = {}
    /\ tiles = <<>>
    /\ indices = <<>>
    /\ gh = NoHistory
    /\ rt = NoTrip
    /\ FAILFLAG = FALSE
    /\ p_rows = <<>>
    /\ NDEBUG = FALSE
    /\ constructed = "yes"

\* the caller computes addr_row(hash_id, k)
Encode(hash_id, k) ==
    /\ rt.stage = "none"
    /\ rt' = [stage |-> "encoded", hid |-> hash_id, k |-> k,
              ar |-> addr_row(hash_id, k), hk |-> NoTrip.hk]
    /\ UNCHANGED <<geometry, p_rows, FAILFLAG, rows, kernel, keys, results, found, written,
                   tiles, indices, gh>>

\* the caller computes hash_key of the address and row it got
Decode ==
    /\ rt.stage = "encoded"
    /\ rt' = [rt EXCEPT !.stage = "decoded",
                        !.hk = hash_key(rt.ar[1], rt.ar[2])]
    /\ UNCHANGED <<geometry, p_rows, FAILFLAG, rows, kernel, keys, results, found, written,
                   tiles, indices, gh>>

NextHash ==
    \/ \E hash_id \in 0 .. (n_hash_functions - 1) :
           \E k \in EdgeKeys(Geo) : Encode(hash_id, k)
    \/ Decode

SpecHash == InitHash /\ [][NextHash]_vars

(* The constructor alone, over arguments it may be called with: the row   *)
(* types of the benchmarks, keys narrower and wider than the address, and  *)
(* both settings of NDEBUG (meson.build: b_ndebug=if-release).             *)

CtorKeyWidths == {3, TestKeyWidth, WideKeyWidth, 62, 63}
CtorAddrWidths == {AddrWidth, 4, TestAddrWidth}

InitCtor ==
    /\ row_width \in RowWidths
    /\ key_width \in CtorKeyWidths
    /\ addr_width \in CtorAddrWidths
    /\ seed \in {DefaultSeed, OtherSeed}
    /\ NDEBUG \in BOOLEAN
    /\ constructed = "no"
    /\ rows = <<>>
    /\ kernel = "idle"
    /\ keys = <<>>
    /\ results = <<>>
    /\ found = <<>>
    /\ written = {}
    /\ tiles = <<>>
    /\ indices = <<>>
    /\ gh = NoHistory
    /\ rt = NoTrip
    /\ FAILFLAG = FALSE
    /\ p_rows = <<>>

\* assert(sizeof(row_type) * 8 >= state_width + rem_width), where rem_width
\* is the uint8_t member initialised with key_width - addr_width
ctor_assert == row_width >= state_width + rem_width

\* assert(e) aborts when e is false, unless NDEBUG is defined
assert_aborts == ~NDEBUG /\ ~ctor_assert

\* Cuckoo(key_width, addr_width, rng): the members are initialised, the
\* assert is evaluated, the slab is allocated and clear() fills it with 0
Construct ==
    /\ constructed = "no"
    /\ IF assert_aborts
       THEN /\ constructed' = "aborted"
            /\ UNCHANGED rows
       ELSE /\ constructed' = "yes"
            /\ rows' = [s \in 0 .. (n_rows - 1) |-> {}]
    /\ UNCHANGED <<row_width, key_width, addr_width, seed, NDEBUG, kernel,
                   keys, results, found, written, tiles, indices, gh, rt,
                   FAILFLAG, p_rows>>

NextCtor == Construct

SpecCtor == InitCtor /\ [][NextCtor]_vars

----------------------------------------------------------------------------
(* Properties of put and find *)

Stored(k) == count(k) > 0
StoredBefore(k) == count_in(gh.pre, k) > 0

\* C1: under puts of pairwise-distinct keys into the empty table, every key
\* whose put result was PUT is, in every later quiescent state, found by
\* find and counted exactly once.
C1_PutKeysStay ==
    Quiescent => \A k \in Keys :
        gh.putres[k] = "PUT" => coop_find(k) /\ count(k) = 1

\* a later put has returned FULL while an earlier key had result PUT
C1_LaterFull ==
    /\ Quiescent
    /\ gh.calls = 2 /\ gh.op = "put" /\ gh.full
    /\ \E k \in Keys \ Range(keys) : gh.putres[k] = "PUT"

\* C2: after a put call, a key whose result is FULL is not stored, and
\* every key that was stored before the call is still stored.
C2_FullIsSoft ==
    Quiescent /\ gh.op = "put" =>
        \A j \in DOMAIN results : results[j] = "FULL" =>
            /\ ~Stored(keys[j])
            /\ \A k \in Keys : StoredBefore(k) => Stored(k)

\* a put of one key into a table that holds keys has returned FULL
C2_FullReturned ==
    /\ Quiescent /\ gh.op = "put" /\ gh.calls = 2
    /\ \E j \in DOMAIN results : results[j] = "FULL"
    /\ \E k \in Keys : StoredBefore(k)

\* the slots of the table, and the key a slot decodes to
Slots == 0 .. (n_rows - 1)
SlotKey(s) == hash_key(s \div bucket_size, rows[s])[2]
SlotsOf(k) == {s \in Slots : rows[s] # {} /\ SlotKey(s) = k}

\* C3: in every quiescent state, a key that was never passed to put or
\* find-or-put since the table was empty is not found by find and has
\* count 0; a find call that has just run reports it so.
C3_AbsentKeys ==
    Quiescent =>
        /\ \A k \in Keys \ gh.passed : ~coop_find(k) /\ count(k) = 0
        /\ gh.op = "find" =>
               \A j \in DOMAIN keys : keys[j] \notin gh.passed => ~found[j]

\* find has looked for a never-passed key in a bucket that holds rows
C3_AbsentSought ==
    /\ Quiescent /\ gh.op = "find"
    /\ \E j \in DOMAIN keys :
           /\ keys[j] \notin gh.passed
           /\ ~found[j]
           /\ rows[addr_row(0, keys[j])[1] * bucket_size] # {}

\* C4: after puts of pairwise-distinct keys that all returned PUT, with
\* finds only between completed puts, every inserted key is in exactly one
\* slot of the table and every occupied slot holds an inserted key.
C4_OneSlotEach ==
    Quiescent /\ ~gh.full =>
        /\ \A k \in gh.passed : Cardinality(SlotsOf(k)) = 1
        /\ \A s \in Slots : rows[s] # {} => SlotKey(s) \in gh.passed

\* the table is full after two puts without FULL, one key moved by eviction
C4_FullTable ==
    /\ Quiescent /\ ~gh.full /\ gh.op = "put" /\ gh.calls = 2
    /\ Cardinality(gh.passed) = (2 ^ addr_width) * bucket_size
    /\ \E s \in Slots : rows[s] # {} /\ row_hash_id(Geo, rows[s]) > 0

\* C5: in every geometry the constructor admits, hash_key of
\* addr_row(i, k) is (i, k), and the row holds the state i + 1 and the
\* remainder of the permuted key apart from each other.
C5_RoundTrip ==
    /\ rt.stage # "none" =>
           /\ Shr(rt.ar[2], row_width - state_width) = Bits(rt.hid + 1)
           /\ rt.ar[2] \cap mask(rem_width)
                  = Shr(permute(Geo, rt.hid, rt.k), addr_width)
           /\ Bits(rt.ar[1]) = permute(Geo, rt.hid, rt.k) \cap mask(addr_width)
    /\ rt.stage = "decoded" => rt.hk = <<rt.hid, rt.k>>

\* a key with its top bit set has made the round trip in a table whose
\* keys are wider than its rows
C5_WideKeyDecoded ==
    /\ rt.stage = "decoded"
    /\ key_width > row_width
    /\ (key_width - 1) \in rt.k

ClearStep == gh'.op = "clear" /\ gh'.calls = gh.calls + 1

\* C7: a step of put, put_avoid_dups, find or find-or-put never makes a
\* non-zero slot zero, only clear() does; a step that changes an occupied
\* slot changes that one slot, to another non-zero row.
C7_Monotone ==
    [][\/ ClearStep
       \/ /\ \A s \in Slots : rows[s] # {} => rows'[s] # {}
          /\ Cardinality({s \in Slots : rows'[s] # rows[s]}) <= 1]_vars

\* an eviction chain is under way in a full bucket
C7_Evicting ==
    \E t \in DOMAIN tiles :
        /\ tiles[t].chain_length >= 2
        /\ tiles[t].pc = "exch"
        /\ \A rank \in Ranks :
               rows[addr_row(tiles[t].hashid, tiles[t].k)[1] * bucket_size + rank] # {}

----------------------------------------------------------------------------
(* Properties of find-or-put *)

\* the places of the sorted view of the last call, and its first occurrences
Places == 0 .. (Len(keys) - 1)
IsFirst(i) == first(keys, indices, i, i)
PlaceKey(i) == view_key(keys, indices, i)
PlaceResult(i) == results[view_pos(indices, i)]

\* C8: find_or_put_sorted on a sorted range writes for the first occurrence
\* of every key FOUND iff the key was stored before the call, else PUT with
\* the key inserted or FULL with the key not inserted; while the find pass
\* runs no put of the call has touched the table.
C8_FirstResults ==
    /\ kernel = "fos_find" => rows = gh.pre
    /\ Quiescent /\ gh.op = "fos" =>
           \A i \in Places : IsFirst(i) =>
               /\ PlaceResult(i) \in {"FOUND", "PUT", "FULL"}
               /\ PlaceResult(i) = "FOUND" <=> StoredBefore(PlaceKey(i))
               /\ PlaceResult(i) = "PUT" => Stored(PlaceKey(i))
               /\ PlaceResult(i) = "FULL" => ~Stored(PlaceKey(i))

\* find_or_put_sorted has returned FULL for a key on a table that held keys
C8_FullReturned ==
    /\ Quiescent /\ gh.op = "fos"
    /\ \E i \in Places : IsFirst(i) /\ PlaceResult(i) = "FULL"
    /\ \E k \in Keys : StoredBefore(k)

\* C9: after find_or_put_sorted or find_or_put, every occurrence of a key
\* that is not the first one in the sorted input has result FOUND, also
\* when the first occurrence got FULL and the key is not in the table.
C9_LaterFound ==
    Quiescent /\ gh.op \in {"fos", "fop"} =>
        \A i \in Places : ~IsFirst(i) => PlaceResult(i) = "FOUND"

\* a later occurrence has FOUND while the first has FULL and the key is
\* not stored
C9_FoundAfterFull ==
    /\ Quiescent /\ gh.op \in {"fos", "fop"}
    /\ \E i \in Places :
           /\ ~IsFirst(i)
           /\ PlaceResult(i) = "FOUND"
           /\ PlaceResult(i - 1) = "FULL"
           /\ ~Stored(PlaceKey(i))

\* find_or_put_sorted has run twice in a row on the same input
Reran ==
    /\ Quiescent
    /\ gh.op = "fos" /\ gh.prev.op = "fos"
    /\ keys = gh.prev.keys

AllFoundUnchanged ==
    /\ \A i \in Places : IsFirst(i) => PlaceResult(i) = "FOUND"
    /\ \A k \in Keys : count(k) = count_in(gh.pre, k)

\* C10 as stated: the second of two runs of find_or_put_sorted on the same
\* sorted input has FOUND for every first occurrence and leaves the count
\* of every key as it was.
C10_Idempotent == Reran => AllFoundUnchanged

\* C10: the same, when no result of the first run was FULL.
C10_IdempotentNoFull ==
    Reran /\ (\A j \in DOMAIN gh.prev.results : gh.prev.results[j] # "FULL")
        => AllFoundUnchanged

\* the second run of an input of two tiles whose first run put every key,
\* one of them by eviction
C10_RerunAfterPuts ==
    /\ Reran
    /\ Len(keys) > bucket_size
    /\ \A j \in DOMAIN gh.prev.results : gh.prev.results[j] = "PUT"
    /\ \E s \in Slots : rows[s] # {} /\ row_hash_id(Geo, rows[s]) > 0

----------------------------------------------------------------------------
(* Properties of the unsorted find-or-put *)

\* the first place in the caller's buffer that holds the key of place j
FirstPlaceOf(j) == CHOOSE a \in DOMAIN keys :
    keys[a] = keys[j] /\ \A b \in DOMAIN keys : keys[b] = keys[j] => a <= b

\* the key view of the kernels, as a sequence
KeyView == [j \in 1 .. Len(keys) |-> view_key(keys, indices, j - 1)]

\* C11: find_or_put runs find_or_put_sorted on a sorted view that is a
\* permutation of the caller's keys, and results[j] belongs to keys[j]: the
\* occurrence of a key with the smallest index in the caller's buffer is
\* the first one of the view and gets FOUND iff the key was stored before
\* the call, else the PUT or FULL its put returned; every other occurrence
\* gets FOUND; without FULL the table gains exactly the keys passed.
C11_UnsortedAsSorted ==
    gh.op = "fop" =>
        /\ IsSorted(KeyView)
        /\ \A a, b \in DOMAIN indices : a # b => indices[a] # indices[b]
        /\ \A i \in Places : IsFirst(i) <=>
               view_pos(indices, i) = FirstPlaceOf(view_pos(indices, i))
        /\ Quiescent =>
               /\ \A j \in DOMAIN keys :
                      IF j = FirstPlaceOf(j)
                      THEN /\ results[j] \in {"FOUND", "PUT", "FULL"}
                           /\ results[j] = "FOUND" <=> StoredBefore(keys[j])
                           /\ results[j] # "FOUND" => results[j] = gh.putres[keys[j]]
                      ELSE results[j] = "FOUND"
               /\ (\A j \in DOMAIN results : results[j] # "FULL") =>
                      \A k \in Keys :
                          Stored(k) <=> (StoredBefore(k) \/ k \in Range(keys))

\* find_or_put has run on an unsorted input with a repeated key that was
\* not in the table: its first occurrence got PUT, its second FOUND
C11_UnsortedRepeated ==
    /\ Quiescent /\ gh.op = "fop"
    /\ ~IsSorted(keys)
    /\ \E a, b \in DOMAIN keys :
           /\ a < b /\ keys[a] = keys[b]
           /\ results[a] = "PUT" /\ results[b] = "FOUND"
           /\ indices[1] # a - 1

\* the last call was a find-or-put
FopCall == gh.op \in {"fos", "fop"}

AtMostOnce == \A k \in Keys : count(k) <= 1

PassedOnce == \A k \in gh.passed : count(k) = 1

EarlierFound ==
    FopCall => \A j \in DOMAIN keys : keys[j] \in gh.earlier => results[j] = "FOUND"

\* C12 as stated: after find-or-put calls on the empty table no key is
\* counted twice, every key passed in is counted once when no result was
\* FULL, and a key that an earlier call was given gets FOUND.
C12_FoundLater ==
    Quiescent => AtMostOnce /\ (~gh.full => PassedOnce) /\ EarlierFound

\* C12: after find-or-put calls on the empty table no key is counted twice
\* and, when no result was FULL, every key passed in is counted once and a
\* key that an earlier call was given gets FOUND.
C12_FoundLaterNoFull ==
    Quiescent => AtMostOnce /\ (~gh.full => PassedOnce /\ EarlierFound)

\* a second find-or-put without FULL, on an unsorted input that repeats a
\* key of the first call and brings a new one, with a key moved by eviction
C12_SecondCall ==
    /\ Quiescent /\ gh.op = "fop" /\ gh.calls = 2 /\ ~gh.full
    /\ ~IsSorted(keys)
    /\ \E j \in DOMAIN keys : keys[j] \in gh.earlier /\ results[j] = "FOUND"
    /\ \E j \in DOMAIN keys : results[j] = "PUT"
    /\ \E s \in Slots : rows[s] # {} /\ row_hash_id(Geo, rows[s]) > 0

----------------------------------------------------------------------------
(* Properties of put and put_avoid_dups *)

\* the tile that serves index j of the result buffer
TileOf(j) == (j - 1) \div bucket_size

\* the row of key k under the first hash function is in the bucket that
\* coop_put probes first
InFirstBucket(k) ==
    LET ar == addr_row(0, k)
    IN \E rank \in Ranks : rows[ar[1] * bucket_size + rank] = ar[2]

\* C13: a step of put_avoid_dups that writes FOUND for keys[j] is taken by
\* a coop_put that still holds keys[j] itself and has written nothing,
\* with the row of keys[j] in the bucket it probed: the key was stored
\* already and was not put by this coop_put.
C13_FoundOnlyStored ==
    [][kernel = "put_avoid_dups" =>
          \A j \in DOMAIN results :
              results[j] # "FOUND" /\ results'[j] = "FOUND" =>
                  /\ tiles[TileOf(j)].chain_length = 0
                  /\ tiles[TileOf(j)].k = keys[j]
                  /\ InFirstBucket(keys[j])]_vars

\* put_avoid_dups of one key that was not stored has put it in the table
\* and reported FOUND
C13_NewKeyFound ==
    /\ Quiescent /\ gh.op = "put_avoid_dups"
    /\ Len(keys) = 1
    /\ results[1] = "FOUND"
    /\ ~StoredBefore(keys[1])
    /\ Stored(keys[1])

\* the bucket of key k under the first hash function had a free slot
\* before the call
FreeSlotBefore(k) ==
    \E rank \in Ranks : gh.pre[addr_row(0, k)[1] * bucket_size + rank] = {}

\* C14: put never writes FOUND, every result of a completed put is PUT or
\* FULL; a put of one key whose first bucket has a free slot returns PUT
\* and raises the count of the key by one, also when the key is stored
\* already.
C14_PutNeverFound ==
    gh.op = "put" =>
        /\ \A j \in DOMAIN results : results[j] \in {"UNSET", "PUT", "FULL"}
        /\ Quiescent =>
               /\ \A j \in DOMAIN results : results[j] \in {"PUT", "FULL"}
               /\ Len(keys) = 1 /\ FreeSlotBefore(keys[1]) =>
                      /\ results[1] = "PUT"
                      /\ count(keys[1]) = count_in(gh.pre, keys[1]) + 1

\* a put of a key that was stored once has returned PUT and the key is
\* now counted twice
C14_SecondCopy ==
    /\ Quiescent /\ gh.op = "put" /\ gh.calls = 2
    /\ Len(keys) = 1
    /\ count_in(gh.pre, keys[1]) = 1
    /\ results[1] = "PUT"
    /\ count(keys[1]) = 2

----------------------------------------------------------------------------
(* Properties of coop_find next to coop_put *)

\* a kernel with coop_find next to coop_put is over
FindOver == Quiescent /\ gh.op = "put_find"

\* C15 as stated: coop_find(k) called next to coop_put returns true when k
\* was stored before the kernel started and no coop_put of the kernel has
\* k as its input key.
C15_FindBesidePut ==
    FindOver /\ StoredBefore(gh.sought) /\ gh.sought \notin Range(keys)
        => found[1]

\* C15: the same, when no coop_put of the kernel has evicted k either.
C15_FindBesidePutUnmoved ==
    FindOver /\ StoredBefore(gh.sought) /\ gh.sought \notin Range(keys)
             /\ gh.sought \notin gh.carried
        => found[1]

\* coop_find has found a key that was stored before, while the coop_put
\* next to it evicted another key
C15_FoundBesideEviction ==
    /\ FindOver
    /\ found[1]
    /\ StoredBefore(gh.sought)
    /\ gh.sought \notin Range(keys) /\ gh.sought \notin gh.carried
    /\ gh.carried # {}

----------------------------------------------------------------------------
(* Properties of find after put *)

\* C16: a find whose kernel runs after the put kernels before it returns
\* true for every key whose put returned PUT and false for every other key.
C16_FindSeesPuts ==
    Quiescent /\ gh.op = "find" =>
        \A j \in DOMAIN keys : found[j] <=> gh.putres[keys[j]] = "PUT"

\* a find has run right after the second of two puts, of which one
\* returned FULL, for a key that a put reported PUT and a key never passed
C16_FindAfterFull ==
    /\ Quiescent /\ gh.op = "find" /\ gh.calls = 3
    /\ gh.full
    /\ \E j \in DOMAIN keys : gh.putres[keys[j]] = "PUT"
    /\ \E j \in DOMAIN keys : keys[j] \notin gh.passed

----------------------------------------------------------------------------
(* Termination *)

\* the bucket that the coop_put of tile t is about to read is full
AtFullBucket(t) ==
    LET ar == addr_row(tiles[t].hashid, tiles[t].k)
    IN \A rank \in Ranks : rows[ar[1] * bucket_size + rank] # {}

\* tile t returns FULL in this step
ReturnsFull(t) ==
    /\ kernel \in PutKernels
    /\ tiles[t].pc = "read"
    /\ tiles'[t] # tiles[t]
    /\ results'[view_pos(indices, leader_index(t))] = "FULL"

\* C17: with every tile scheduled again and again, no coop_put does more
\* than max_chain_length exchanges, a coop_put returns FULL only at a full
\* bucket with chain_length = max_chain_length, a bulk call that is over
\* has a result for every key, and every kernel that has started runs to
\* its end.
C17_Terminates ==
    /\ [](\A t \in DOMAIN tiles : tiles[t].chain_length <= max_chain_length)
    /\ [][\A t \in DOMAIN tiles : ReturnsFull(t) =>
              tiles[t].chain_length = max_chain_length /\ AtFullBucket(t)]_vars
    /\ [](Quiescent /\ gh.op \in {"put", "put_avoid_dups", "fos", "fop"} =>
              \A j \in DOMAIN results : results[j] \in {"PUT", "FOUND", "FULL"})
    /\ (kernel # "idle" ~> kernel = "idle")

\* a coop_put has done max_chain_length exchanges and returned FULL, and
\* the kernel is over
C17_ChainEnded ==
    /\ Quiescent /\ gh.full
    /\ \E j \in DOMAIN results : results[j] = "FULL"

----------------------------------------------------------------------------
(* Capacity *)

\* the slots that addresses reach: 2^addr_width buckets of bucket_size
Capacity == (2 ^ addr_width) * bucket_size

Occupied == {s \in Slots : rows[s] # {}}

\* C18: never more than 2^addr_width * bucket_size slots are occupied, never
\* more than that many results since the last clear were PUT, and when
\* more distinct keys than that have been passed to completed calls, some
\* result was FULL.
C18_Capacity ==
    /\ Cardinality(Occupied) <= Capacity
    /\ gh.nput <= Capacity
    /\ Quiescent /\ Cardinality(gh.passed) > Capacity => gh.full

\* find-or-put has been given more distinct keys than the table has slots:
\* every slot that an address reaches is taken and a result is FULL
C18_Overfull ==
    /\ Quiescent /\ FopCall
    /\ Cardinality(gh.passed) > Capacity
    /\ Cardinality(Occupied) = Capacity /\ gh.nput = Capacity
    /\ \E j \in DOMAIN results : results[j] = "FULL"

----------------------------------------------------------------------------
(* The dispatcher coop *)

\* the kernels that run coop
CoopKernels == {"put", "put_avoid_dups", "find"}

\* the last call ran coop
CoopCall == gh.op \in CoopKernels

\* tile t is at the start of an invocation of F
AtCall(t) ==
    /\ tiles[t].pending # {}
    /\ tiles[t].pc \in {"find", "read"}
    /\ tiles[t].chain_length = 0 /\ tiles[t].hashid = 0

\* this step stores a result: it is the result of the leader of one tile,
\* whose index had no result yet, and the leader leaves the queue
StoresOne ==
    \E t \in DOMAIN tiles :
        /\ tiles[t].pending # {}
        /\ leader_index(t) \notin written
        /\ written' = written \cup {leader_index(t)}
        /\ tiles'[t].pending = tiles[t].pending \ {leader_of(tiles[t].pending)}
        /\ \A u \in DOMAIN tiles \ {t} : tiles'[u] = tiles[u]

\* a step of a kernel that runs coop stores in the result buffer
CoopStores == kernel \in CoopKernels /\ kernel' = kernel /\ written' # written

\* C19: a kernel that runs coop on a range of any length L calls F with
\* keys[i] for the leader i of a tile, stores one result per call, for an
\* index below L that had none, ends with a result for every index below L
\* and no lane pending (for find, the result of coop_find for keys[i]),
\* and always ends.
C19_CoopOncePerKey ==
    /\ [](kernel \in CoopKernels =>
             /\ written \subseteq 0 .. (Len(keys) - 1)
             /\ Len(results) = Len(keys) /\ Len(found) = Len(keys)
             /\ \A t \in DOMAIN tiles : AtCall(t) =>
                    tiles[t].k = keys[leader_index(t) + 1])
    /\ [][CoopStores => StoresOne]_vars
    /\ [](Quiescent /\ CoopCall =>
             /\ written = 0 .. (Len(keys) - 1)
             /\ \A t \in DOMAIN tiles : tiles[t].pending = {}
             /\ gh.op = "find" =>
                    \A j \in DOMAIN keys : found[j] = coop_find_in(gh.pre, keys[j])
             /\ gh.op # "find" =>
                    \A j \in DOMAIN keys : results[j] \in {"PUT", "FOUND", "FULL"})
    /\ (kernel \in CoopKernels ~> Quiescent)

\* coop has run on a range of one full tile and one tile with a single
\* key, and a coop_put of the full tile went through an eviction
C19_PartialTile ==
    /\ Quiescent /\ CoopCall
    /\ Len(keys) = bucket_size + 1
    /\ written = 0 .. bucket_size
    /\ \E s \in Slots : rows[s] # {} /\ row_hash_id(Geo, rows[s]) > 0

----------------------------------------------------------------------------
(* clear() *)

\* the last call was clear()
Cleared == gh.op = "clear"

\* C20: after clear() every slot of the slab is zero, every key has count
\* 0 and is not found, and clear() leaves row_width, key_width, addr_width
\* and the seed of the permutation as they were.
C20_ClearEmpties ==
    /\ [](Cleared =>
             /\ \A s \in Slots : rows[s] = {}
             /\ \A k \in Keys : count(k) = 0 /\ ~coop_find(k))
    /\ [][ClearStep => geometry' = geometry]_vars

\* clear() has run on a table that held keys, one of them moved by an
\* eviction
C20_ClearedFilled ==
    /\ Cleared
    /\ \E s \in Slots : gh.pre[s] # {} /\ row_hash_id(Geo, gh.pre[s]) > 0
    /\ \A s \in Slots : rows[s] = {}

----------------------------------------------------------------------------
(* The failure flag *)

\* some key handed to the flag since its last reset had the result FULL
FullSinceReset == "FULL" \in gh.flagged

\* with the device idle, failed() is true iff a result was FULL since the
\* last reset
FlagTellsFull == Quiescent => (failed <=> FullSinceReset)

\* prefill returned true iff no key of it was FULL
PrefillTellsFull == gh.op = "prefilled" => (gh.ret.value <=> ~gh.ret.full)

\* C21 as stated: with the device idle after the writes through the flag,
\* failed() is true iff some result since the last reset was FULL (so a
\* result that is not FULL never clears the flag and no FULL of racing
\* lanes is lost), and prefill returns true iff none of its keys was FULL
\* and leaves the flag reset.
C21_FlagLifecycle ==
    /\ FlagTellsFull
    /\ PrefillTellsFull
    /\ gh.op = "prefilled" => ~failed

\* C21 (amended): as C21_FlagLifecycle, but prefill leaves the flag reset
\* only for a range that is not empty; for an empty range it returns true
\* and leaves the flag as it was.
C21_FlagLifecycleNonEmpty ==
    /\ FlagTellsFull
    /\ PrefillTellsFull
    /\ gh.op = "prefilled" =>
           IF gh.ret.len > 0 THEN ~failed
           ELSE gh.ret.value /\ (failed <=> gh.ret.before)

\* a prefill with a FULL key has returned false and left the flag reset,
\* after a put through the flag had set it
C21_PrefillFailed ==
    /\ gh.op = "prefilled"
    /\ gh.ret.len > 0
    /\ gh.ret.full
    /\ ~gh.ret.value
    /\ gh.ret.before
    /\ ~failed

----------------------------------------------------------------------------
(* The Iceberg table *)

p_full(k, hid) ==
    \A rank \in Ranks : p_bucket(p_rows, k, hid)[rank] # {}

\* tile t of a put kernel of the Iceberg table takes this step
IceSteps(t) ==
    /\ kernel \in IcePutKernels
    /\ kernel' = kernel
    /\ t \in DOMAIN tiles
    /\ tiles'[t] # tiles[t]

\* the step of tile t goes from the primary level on to the secondary
EntersSecondary(t) ==
    /\ IceSteps(t)
    /\ tiles[t].pc \in {"p_read", "p_cas"}
    /\ tiles'[t].pc = "read"

\* the step of tile t writes to the primary level
WritesPrimary(t) == IceSteps(t) /\ p_rows' # p_rows

\* the step of tile t is the CAS-insert of its key at the leftmost free slot
\* of the first primary bucket of the key that has one, with the result PUT
\* and the secondary as it was
InsertsLeftmost(t) ==
    LET k == tiles[t].k
        hid == tiles[t].hashid
        ar == addr_row(hid, k)
        slot == ar[1] * bucket_size + leftmost_free(p_bucket(p_rows, k, hid))
    IN /\ \A h \in 0 .. (hid - 1) : p_full(k, h)
       /\ ~p_full(k, hid)
       /\ p_rows' = [p_rows EXCEPT ![slot] = ar[2]]
       /\ rows' = rows
       /\ results'[view_pos(indices, leader_index(t))] = "PUT"

\* a step that writes to the secondary is a step of a tile that is past
\* the primary level
SecondaryWriter ==
    \E t \in DOMAIN tiles : IceSteps(t) /\ tiles[t].pc \in {"cas", "exch"}

SecondaryBesideEmpty(k) ==
    /\ count(k) > 0
    /\ \E h \in 0 .. (p_n_hash_functions - 1) : ~p_full(k, h)

IceClears == gh'.calls # gh.calls /\ gh'.op = "ice_clear"

\* the step is the eviction exchange of a tile on slot s of the secondary
EvictionExchange(s) ==
    \E t \in DOMAIN tiles :
        LET ar == addr_row(tiles[t].hashid, tiles[t].k)
        IN /\ IceSteps(t)
           /\ tiles[t].pc = "exch"
           /\ tiles[t].load = bucket_size
           /\ s = ar[1] * bucket_size + cuckoor(t, tiles[t].chain_length)
           /\ rows'[s] = ar[2]

\* C25: the put protocol of the Iceberg table overwrites no occupied slot
\* but in the eviction chain of the secondary: an occupied primary slot
\* keeps its value until clear(), and an occupied secondary slot changes
\* only to another non-zero value and only by an eviction exchange on it.
C25_NoOverwrite ==
    [][~IceClears =>
          /\ \A s \in DOMAIN p_rows : p_rows[s] # {} => p_rows'[s] = p_rows[s]
          /\ \A s \in DOMAIN rows :
                 rows[s] # {} /\ rows'[s] # rows[s] =>
                     rows'[s] # {} /\ EvictionExchange(s)]_vars

\* a put is in the eviction chain of the secondary: it has exchanged a row
\* of the secondary for another, beside the full primary bucket of its key
C25_Evicting ==
    /\ kernel \in IcePutKernels
    /\ \E t \in DOMAIN tiles :
           /\ tiles[t].pc = "read"
           /\ tiles[t].chain_length > 1
           /\ p_full(tiles[t].k, 0)
    /\ \E s \in DOMAIN rows : rows[s] # {} /\ rows[s] # gh.pre[s] /\ gh.pre[s] # {}

----------------------------------------------------------------------------
(* Construction *)

\* the row cannot hold the state and the remainder of a key, or the address
\* is wider than the key
BadGeometry ==
    \/ row_width < state_width + (key_width - addr_width)
    \/ addr_width > key_width

\* C26: construction yields no table when the row is narrower than
\* state_width + (W - A) or when A > W, and a constructed table starts with
\* every slot zero
C26_CtorFailsFast ==
    /\ BadGeometry => constructed # "yes"
    /\ (constructed = "yes" /\ gh.calls = 0 /\ kernel = "idle") =>
           \A s \in DOMAIN rows : rows[s] = {}

\* C26: the constructor has run on a geometry whose row is too narrow
C26_NarrowRowConstructed ==
    /\ constructed # "no"
    /\ row_width < state_width + (key_width - addr_width)

----------------------------------------------------------------------------
(* The sorted dispatchers *)

\* place i of the sorted view holds the first occurrence of its key
FirstOccurrence(i) == i = 0 \/ PlaceKey(i) # PlaceKey(i - 1)
FirstPlaces == {i \in Places : FirstOccurrence(i)}

\* the last call ran the sorted dispatchers; its first, its second kernel is
\* over
SortedCall == gh.op \in {"fos", "fop"}
FindPassOver == SortedCall /\ kernel \in {"fos_put", "idle"}
PutPassOver == SortedCall /\ kernel = "idle"

\* F is invoked at first occurrences only, and never twice at one place
ActedOnFirstOnly ==
    /\ ~gh.acted.twice
    /\ gh.acted.find \subseteq FirstPlaces
    /\ gh.acted.put \subseteq FirstPlaces

----------------------------------------------------------------------------
(* The unsorted dispatcher *)

UnsortedKernels == {"put", "put_avoid_dups", "find"}

\* the lanes of tile t that hold a key of the range
InRange(t) == {rank \in Ranks : index_of(t, rank) < Len(keys)}

\* the lanes of tile t whose result the kernel in flight has stored
Served(t) ==
    {rank \in InRange(t) : (view_pos(indices, index_of(t, rank)) - 1) \in written}

LowestPending(t) ==
    CHOOSE rank \in tiles[t].pending : \A other \in tiles[t].pending : rank <= other

\* the place of the result of lane rank of tile t
ResultPlace(t, rank) == view_pos(indices, index_of(t, rank))

\* tile t ends a round of its while loop: a lane leaves the pending set
RoundOver(t) ==
    /\ kernel \in UnsortedKernels
    /\ kernel' = kernel
    /\ tiles'[t].pending # tiles[t].pending

\* tile t is in F with the key it was called with (coop_put has not
\* replaced it with an evicted key)
InCall(t) ==
    /\ tiles[t].pending # {}
    /\ tiles[t].chain_length = 0

\* a round of tile t: the lowest pending lane is the leader, the tile works
\* on its key, and at the end only the leader has stored and has left
LeaderRound(t) ==
    /\ InCall(t) =>
           tiles[t].k = view_key(keys, indices, index_of(t, LowestPending(t)))
    /\ RoundOver(t) =>
           /\ tiles[t].pending # {}
           /\ tiles'[t].pending = tiles[t].pending \ {LowestPending(t)}
           /\ \A j \in DOMAIN results :
                  (results'[j] # results[j] \/ found'[j] # found[j]) =>
                      j = ResultPlace(t, LowestPending(t))
           /\ written' = written \cup {ResultPlace(t, LowestPending(t)) - 1}

LeaderRounds ==
    kernel \in UnsortedKernels => \A t \in DOMAIN tiles : LeaderRound(t)

\* one round has been run for every lane that was pending and is no more
RoundPerLane ==
    kernel \in UnsortedKernels =>
        \A t \in DOMAIN tiles :
            /\ tiles[t].pending \subseteq InRange(t)
            /\ Served(t) = InRange(t) \ tiles[t].pending
            /\ tiles[t].pc = "done" => tiles[t].pending = {}

\* C28: the pending lanes of a tile are served one at a time in ascending
\* lane rank: each round has the lowest pending lane as leader, the tile runs
\* F on the leader's key, only the leader stores the result and leaves the
\* pending set, and the rounds are as many as the lanes that were pending
C28_LeaderOrder == []RoundPerLane /\ [][LeaderRounds]_vars

\* C28: a tile with two pending lanes has served lane 0 and is in the round
\* of lane 1
C28_SecondRound ==
    /\ kernel \in UnsortedKernels
    /\ \E t \in DOMAIN tiles :
           /\ InRange(t) = {0, 1}
           /\ tiles[t].pending = {1}
           /\ Served(t) = {0}

----------------------------------------------------------------------------
(* The atomicCAS of coop_put *)

\* the bucket tile t works on, its row for it, the slot of its atomicCAS
PutBucket(t) == addr_row(tiles[t].hashid, tiles[t].k)[1]
PutRow(t) == addr_row(tiles[t].hashid, tiles[t].k)[2]
CasSlot(t) == PutBucket(t) * bucket_size + tiles[t].load

\* the number of rows in bucket addr
LoadOf(addr) ==
    Cardinality({rank \in Ranks : rows[addr * bucket_size + rank] # {}})

CoopPutKernels == PutKernels \ IcePutKernels

\* tile t is at its atomicCAS and the slot holds a row of another key
CasFails(t) ==
    /\ kernel \in CoopPutKernels
    /\ tiles[t].pc = "cas"
    /\ rows[CasSlot(t)] # {}
    /\ rows[CasSlot(t)] # PutRow(t)

\* the step of tile t from a failed atomicCAS: back to the head of the loop
\* with the same key, hash id and chain length, and nothing written
CasRetry(t) ==
    (CasFails(t) /\ tiles'[t] # tiles[t]) =>
        /\ tiles'[t].pc = "read"
        /\ tiles'[t].k = tiles[t].k
        /\ tiles'[t].hashid = tiles[t].hashid
        /\ tiles'[t].chain_length = tiles[t].chain_length
        /\ tiles'[t].pending = tiles[t].pending
        /\ tiles'[t].retries = tiles[t].retries + 1
        /\ rows' = rows
        /\ results' = results

CasRetries == \A t \in DOMAIN tiles : CasRetry(t)

\* every failed atomicCAS of a tile on its bucket is matched by a row that
\* another tile wrote into that bucket after the tile had read it
RetriesMatched ==
    kernel \in CoopPutKernels =>
        \A t \in DOMAIN tiles :
            /\ tiles[t].retries <= bucket_size
            /\ tiles[t].pc \in {"read", "cas"} =>
                   tiles[t].retries <= LoadOf(PutBucket(t))
            /\ tiles[t].pc = "cas" =>
                   /\ tiles[t].retries <= tiles[t].load
                   /\ tiles[t].load < bucket_size
                   /\ \A rank \in 0 .. (tiles[t].load - 1) :
                          rows[PutBucket(t) * bucket_size + rank] # {}

\* C29: a coop_put whose atomicCAS on the first free slot fails because the
\* slot holds a different row by then retries the same key under the same
\* hash id with the chain length unchanged; every such failure goes with a
\* write of another tile into the bucket, so the put retries at most
\* bucket_size times per bucket before it succeeds or sees the bucket full
C29_CasRetry == []RetriesMatched /\ [][CasRetries]_vars

\* C29: a put has failed bucket_size times on one bucket and finds it full
C29_RetriedToFull ==
    /\ kernel \in CoopPutKernels
    /\ \E t \in DOMAIN tiles :
           /\ tiles[t].retries = bucket_size
           /\ tiles[t].pc = "exch"
           /\ tiles[t].chain_length = 0

----------------------------------------------------------------------------
(* The eviction step of coop_put *)

\* tile t takes its eviction step: it read a full bucket with
\* chain_length < max_chain_length and now exchanges
EvictionStep(t) ==
    /\ kernel \in CoopPutKernels
    /\ tiles[t].pc = "exch"
    /\ tiles'[t] # tiles[t]

\* the lane of tile t that exchanges at chain length c: a base that depends
\* on the tile only (blockIdx.x * blockDim.x + tile.meta_group_rank()), moved
\* on by c
TileBase(t) ==
    ((t * bucket_size) \div block_size) * block_size
        + ((t * bucket_size) % block_size) \div bucket_size

VictimLane(t, c) == (TileBase(t) + c) % bucket_size

VictimSlot(t) ==
    PutBucket(t) * bucket_size + VictimLane(t, tiles[t].chain_length)

\* the chain of tile t goes on with the key of row evicted from bucket addr,
\* under the hash function after the one the row was stored with
GoesOnWith(t, addr, evicted) ==
    \E hid \in 0 .. (n_hash_functions - 1) :
        /\ addr_row(hid, tiles'[t].k) = <<addr, evicted>>
        /\ tiles'[t].hashid = (hid + 1) % n_hash_functions

\* the eviction step of tile t exchanges at the victim lane and nowhere else
ExchangesVictim(t) ==
    /\ tiles[t].chain_length < max_chain_length
    /\ LoadOf(PutBucket(t)) = bucket_size
    /\ rows' = [rows EXCEPT ![VictimSlot(t)] = PutRow(t)]

\* the chain of tile t goes on after the eviction step
ChainGoesOn(t) ==
    /\ GoesOnWith(t, PutBucket(t), rows[VictimSlot(t)])
    /\ tiles'[t].chain_length = tiles[t].chain_length + 1
    /\ tiles'[t].pc = "read"
    /\ tiles'[t].pending = tiles[t].pending

\* coop_put<true> got its own row back from the exchange and returns FOUND
\* to the leader
ExchangeFound(t) ==
    /\ tiles'[t].pending = tiles[t].pending \ {LowestPending(t)}
    /\ results'[ResultPlace(t, LowestPending(t))] = "FOUND"

Eviction(t) ==
    EvictionStep(t) => (ExchangesVictim(t) /\ ChainGoesOn(t))

Evictions == \A t \in DOMAIN tiles : Eviction(t)

EvictionOrFound(t) ==
    EvictionStep(t) =>
        /\ ExchangesVictim(t)
        /\ IF avoid_dups /\ rows[VictimSlot(t)] = PutRow(t)
           THEN ExchangeFound(t)
           ELSE ChainGoesOn(t)

EvictionsOrFound == \A t \in DOMAIN tiles : EvictionOrFound(t)

\* C30 as stated: an eviction step of coop_put has exactly one lane v
\* exchange its slot with the new row, v = (base + c) mod bucket_size for a
\* base that depends on the tile only, so that consecutive steps of a chain
\* use consecutive lanes; the chain goes on with the key k' of the evicted
\* row (h', k') under hash function (h' + 1) mod n_hash_functions, and c
\* grows by one
C30_EvictionStep == [][Evictions]_vars

\* C30 amended: as stated, except that with avoid_dups an exchange that
\* evicts a row equal to the new row ends the put with FOUND: the chain does
\* not go on and c does not grow
C30_EvictionStepOrFound == [][EvictionsOrFound]_vars

\* C30: a chain has taken two eviction steps, at two different lanes
C30_SecondEviction ==
    /\ kernel \in CoopPutKernels
    /\ \E t \in DOMAIN tiles :
           /\ tiles[t].chain_length = 2
           /\ tiles[t].pc = "read"
           /\ VictimLane(t, 0) # VictimLane(t, 1)

----------------------------------------------------------------------------
(* The fill order of a bucket *)

BucketAddrs == 0 .. ((n_rows \div bucket_size) - 1)

\* the occupied slots of bucket addr are its first slots
PrefixFilled(addr) ==
    \A rank \in Ranks :
        rows[addr * bucket_size + rank] = {} =>
            \A higher \in Ranks :
                higher > rank => rows[addr * bucket_size + higher] = {}

\* the slot of the atomicCAS of tile t, if still free, is the leftmost free
\* slot of the bucket
CasAtLeftmostFree(t) ==
    (tiles[t].pc = "cas" /\ rows[CasSlot(t)] = {}) =>
        /\ tiles[t].load = LoadOf(PutBucket(t))
        /\ \A rank \in Ranks :
               rank < tiles[t].load =>
                   rows[PutBucket(t) * bucket_size + rank] # {}

\* C31: in every reachable state the occupied slots of every bucket form a
\* prefix of the bucket, so the slot with index popcount(occupied) that the
\* atomicCAS is aimed at is the leftmost free slot
C31_PrefixFill ==
    /\ \A addr \in BucketAddrs : PrefixFilled(addr)
    /\ kernel \in CoopPutKernels =>
           \A t \in DOMAIN tiles : CasAtLeftmostFree(t)

\* C31: a tile is at its atomicCAS on the second slot of a bucket whose first
\* slot is occupied, while another tile is in coop_put as well
C31_HalfFilled ==
    /\ kernel \in CoopPutKernels
    /\ \E t, u \in DOMAIN tiles :
           /\ t # u
           /\ tiles[t].pc = "cas"
           /\ tiles[t].load = 1
           /\ rows[CasSlot(t)] = {}
           /\ tiles[u].pc \in {"read", "cas", "exch"}

----------------------------------------------------------------------------
(* The early exit of coop_find *)

\* the hash id and the key of the row in slot s
SlotHashKey(s) == hash_key(s \div bucket_size, rows[s])

\* the buckets of the key in slot s under the hash functions before the one
\* it is stored with are full
FullBefore(s) ==
    \A hid \in 0 .. (n_hash_functions - 1) :
        hid < SlotHashKey(s)[1] =>
            LoadOf(addr_row(hid, SlotHashKey(s)[2])[1]) = bucket_size

\* C32: in every reachable state a key stored under hash id i > 0 has full
\* buckets at its addresses under all hash ids j < i; so in every quiescent
\* state coop_find(k) is true iff count(k) >= 1, although coop_find stops at
\* the first bucket with an empty slot and count scans all buckets
C32_EarlyExitSound ==
    /\ \A s \in Occupied : FullBefore(s)
    /\ Quiescent => \A k \in Keys : coop_find(k) <=> (count(k) >= 1)

\* C32: the device is idle, a key is stored under a hash id above 0 and
\* coop_find finds it
C32_FoundUnderLaterHash ==
    /\ Quiescent
    /\ \E s \in Occupied :
           /\ SlotHashKey(s)[1] > 0
           /\ SlotHashKey(s)[2] \in Keys
           /\ coop_find(SlotHashKey(s)[2])

----------------------------------------------------------------------------
(* The number of occupied slots *)

NOccupied == Cardinality(Occupied)

\* tile t returns from coop_put in this step: its leader is served
PutReturns(t) ==
    /\ tiles[t].pc \in {"read", "cas", "exch"}
    /\ tiles'[t].pending # tiles[t].pending

\* the result that tile t stores for its leader in this step
Returned(t) == results'[view_pos(indices, leader_index(t))]

\* a step of a put kernel adds one occupied slot when it returns PUT and
\* none when it returns FULL or FOUND or does not return
SlotsConserved ==
    kernel \in CoopPutKernels \ {"put_flag"} =>
        /\ \A t \in DOMAIN tiles : PutReturns(t) =>
               /\ Returned(t) \in {"PUT", "FULL", "FOUND"}
               /\ Returned(t) \in {"FULL", "FOUND"} =>
                      Cardinality(Occupied') = NOccupied
               /\ Returned(t) = "PUT" => Cardinality(Occupied') = NOccupied + 1
        /\ (\A t \in DOMAIN tiles : ~PutReturns(t)) =>
               Cardinality(Occupied') = NOccupied

\* the occupied slots are as many as the results PUT since the last clear()
OccupiedArePut == NOccupied = gh.nput

\* the results of the last call that are PUT
CallPuts == Cardinality({j \in DOMAIN results : results[j] = "PUT"})

\* the slots that were occupied when the last call began
OccupiedBefore == Cardinality({s \in Slots : gh.pre[s] # {}})

\* once a call that puts has ended, it has added as many occupied slots as
\* it has results PUT
CallAddsItsPuts ==
    Quiescent /\ gh.op \in {"put", "put_avoid_dups", "fos", "fop"} =>
        NOccupied = OccupiedBefore + CallPuts

\* C33: in every quiescent state after clear() the number of occupied slots
\* equals the number of put, put_avoid_dups and find-or-put results that
\* were PUT (it does so in every state, the atomicCAS and the result being
\* one step of the tile), and a put that returns FULL or FOUND leaves the
\* number of occupied slots unchanged
C33_SlotConservation ==
    [](OccupiedArePut /\ CallAddsItsPuts) /\ [][SlotsConserved]_vars

\* C33: a call has ended with a result FULL after its chain replaced rows
\* that were in the table before the call, and the occupied slots are still
\* as many as the results PUT
C33_FullReplaced ==
    /\ Quiescent /\ gh.op \in {"put", "put_avoid_dups"}
    /\ \E j \in DOMAIN results : results[j] = "FULL"
    /\ \E s \in Occupied : gh.pre[s] # {} /\ rows[s] # gh.pre[s]
    /\ NOccupied = gh.nput /\ NOccupied = OccupiedBefore + CallPuts

----------------------------------------------------------------------------
(* Eviction chains of two tiles at once *)

\* the key that has a second bucket, and two keys that have one bucket
MovingKey == Bits(KeySample[3])
ChainKeys == <<Bits(KeySample[1]), Bits(KeySample[2]), Bits(KeySample[4])>>

\* the first call fills a bucket with two rows of the key that can move to
\* the other bucket; the second call has a tile for every lane of that
\* bucket, and one key more than the table has room for (put) or one key
\* twice (put_avoid_dups)
ChainBatches ==
    IF gh.calls = 0
    THEN {[j \in 1 .. bucket_size |-> MovingKey]}
    ELSE {ChainKeys, <<ChainKeys[1], ChainKeys[1], ChainKeys[2]>>}

NextChains ==
    \/ HostReady /\ gh.calls = 0 /\ \E ks \in ChainBatches : Put(ks)
    \/ HostReady /\ gh.calls > 0 /\ \E ks \in ChainBatches : Put(ks)
    \/ HostReady /\ gh.calls > 0 /\ \E ks \in ChainBatches : PutAvoidDups(ks)
    \/ Device

SpecChains == Init /\ [][NextChains]_vars

\* tile t is in coop_put
InPut(t) == tiles[t].pc \in {"read", "cas", "exch"}

\* tile t is in coop_put with key k as the key it puts or carries
Carries(t, k) == IF InPut(t) /\ tiles[t].k = k THEN 1 ELSE 0

\* the slots that hold key k
InSlots(k) == Cardinality(SlotsOf(k))

\* a step of tile t in coop_put
ChainStep(t) == InPut(t) /\ tiles'[t] # tiles[t]

\* a step of coop_put changes at most one slot and no other tile; while the
\* tile goes on, every key is in as many slots and chains as before; when
\* it returns PUT its key is in one slot more; when it returns FULL or
\* FOUND every key is in as many slots as before and its key is gone
KeysConserved ==
    kernel \in {"put", "put_avoid_dups"} /\ kernel' = kernel =>
        \A t \in DOMAIN tiles : ChainStep(t) =>
            /\ \A u \in DOMAIN tiles : u # t => tiles'[u] = tiles[u]
            /\ Cardinality({s \in Slots : rows'[s] # rows[s]}) <= 1
            /\ \A k \in Keys :
                   IF ~PutReturns(t)
                   THEN InSlots(k)' + Carries(t, k)' = InSlots(k) + Carries(t, k)
                   ELSE IF Returned(t) = "PUT"
                   THEN InSlots(k)' = InSlots(k) + Carries(t, k)
                   ELSE InSlots(k)' = InSlots(k)

\* a step that is not of a tile in coop_put, and not clear(), leaves rows
RowsOnlyByPut ==
    (\A t \in DOMAIN tiles : ~ChainStep(t)) /\ gh'.op # "clear" => rows' = rows

\* C34: no key is duplicated or lost by concurrent eviction chains: a row
\* in a slot stays there until one atomicExch takes it out, and then its key
\* is the key of that one chain; a key leaves only as the key a chain holds
\* when it returns FULL, or FOUND with avoid_dups
C34_ChainsConserve == [][KeysConserved /\ RowsOnlyByPut]_vars

\* C34: two tiles are in eviction chains at once, each carrying a key it
\* took out of a slot
C34_TwoChains ==
    \E t, u \in DOMAIN tiles :
        /\ t # u
        /\ InPut(t) /\ tiles[t].chain_length >= 1
        /\ InPut(u) /\ tiles[u].chain_length >= 1

====
